---- MODULE Spec2Model ----
(***************************************************************************)
(* Model of the prompt authoring core of sd-forge_py_gui:                  *)
(*   - LoraSelectionList (gui/widgets.py): the ordered, keyed set of       *)
(*     auxiliary model selections with change notification;                *)
(*   - PromptTextEdit._adjust_selected_tag_weight (gui/widgets.py): the    *)
(*     weight annotation rewriting of the selected text;                   *)
(*   - PromptTextEdit.keyPressEvent (gui/widgets.py): the completion popup;*)
(*   - TagRepository (tag_completion.py): the tag vocabulary;              *)
(*   - GenerationRequest.to_payload (models.py): the request payload.      *)
(* Texts are sequences of one-character strings, offsets are 0-based as in *)
(* the source, and spin-box weights are counted in thousandths.            *)
(***************************************************************************)
EXTENDS Integers, Sequences, FiniteSets, TLC

VARIABLES
    rows,       \* QListWidget rows, in order: [item, name, weight]
    items,      \* LoraSelectionList._items: name -> item (NoItem when absent)
    loading,    \* LoraSelectionList._loading
    depth,      \* number of selectionsChanged handlers currently running
    emitLog,    \* what selections() showed at each emit of the last call
    lastCall,   \* the last call made on the list and what it found
    text,       \* PromptTextEdit.toPlainText()
    selStart,   \* textCursor().selectionStart()
    selEnd,     \* textCursor().selectionEnd()
    lastAdjust, \* the last call of _adjust_selected_tag_weight and its result
    tags,       \* PromptTextEdit._model.stringList()
    popupVisible,       \* _completer.popup().isVisible()
    completion_context, \* PromptTextEdit._completion_context
    completionPrefix,   \* _completer.completionPrefix()
    lastKey,    \* the last key event or set_tags call and what it did
    repo_tags,  \* TagRepository._tags
    lastReload, \* the last reload(): its directories, how it ended, tags() before it
    request,    \* a GenerationRequest
    payload,    \* what request.to_payload() returned (NoPayload before the call)
    prior,      \* what the call before the last returned (NoPayload if none)
    base_url,   \* StableDiffusionClient._base_url
    api_url_edit,   \* MainWindow.api_url_edit.text()
    stored_url, \* QSettings value api/base_url
    lastApi,    \* the last operation on the client or the URL bar and its result
    page,       \* the fields of TextToImageWidget that the generations use
    threads,    \* the QThread of each generation: its state, deleteLater() called
    workers,    \* the GenerationWorker of each generation
    queue,      \* the slot calls posted to the interactive thread, oldest first
    lastGen     \* the last step of the interactive thread on the page

selVars == <<rows, items, loading, depth, emitLog, lastCall>>
editVars == <<text, selStart, selEnd, lastAdjust>>
keyVars == <<tags, popupVisible, completion_context, completionPrefix, lastKey>>
tagVars == <<repo_tags, lastReload>>
payVars == <<request, payload, prior>>
apiVars == <<base_url, api_url_edit, stored_url, lastApi>>
genVars == <<page, threads, workers, queue, lastGen>>
vars == <<selVars, editVars, keyVars, tagVars, payVars, apiVars, genVars>>

(***************************************************************************)
(* Bounds of the model.                                                    *)
(***************************************************************************)
MaxDepth == 2       \* nesting of change-notification handlers
MaxSel == 2         \* length of the sequence given to set_selections
MaxSelLen == 2      \* length of an enumerated selection text
MaxWeight == 2      \* the Up key is followed up to this weight
MaxText == 2        \* length of a text that is typed into
MaxDirs == 2        \* number of search directories of a reload
MaxLoras == 2       \* number of selections of a request
MaxGen == 3         \* number of generations that are started

(***************************************************************************)
(* Generic helpers.                                                        *)
(***************************************************************************)
Range(s) == {s[i] : i \in 1..Len(s)}

SeqsUpTo(S, n) == UNION {[1..k -> S] : k \in 0..n}

Max(a, b) == IF a >= b THEN a ELSE b

Min(a, b) == IF a <= b THEN a ELSE b

\* F applied to the value of x, which is computed once.
With(x, F(_)) == CHOOSE r \in {F(v) : v \in {x}} : TRUE

(***************************************************************************)
(* LoraListItemWidget: the weight spin box.                                *)
(***************************************************************************)
SpinMin == 0
SpinMax == 2000
SpinStep == 10      \* setDecimals(2): one hundredth, in thousandths

\* QDoubleSpinBox.setValue: round to the box's decimals, then bound to its
\* range.  Weights whose third decimal is 5 are not drawn (binary ties).
SpinValueUnbounded(w) == ((w + SpinStep \div 2) \div SpinStep) * SpinStep

SpinValue(w) == Max(SpinMin, Min(SpinMax, SpinValueUnbounded(w)))

(***************************************************************************)
(* LoraSelectionList.                                                      *)
(***************************************************************************)
Names == {"A", "B", "C"}
NoItem == 0
DefaultWeight == 1000
InWeights == {DefaultWeight, 1234, 2500}
\* The (info, weight) pairs that set_selections is given sequences of.
BulkItems == {[name |-> "A", weight |-> DefaultWeight],
              [name |-> "B", weight |-> 2500],
              [name |-> "A", weight |-> 1234]}

\* A QListWidgetItem just constructed is distinct from every live item.
NewItem(rs) == CHOOSE i \in 1..(Len(rs) + 1) : \A r \in 1..Len(rs) : rs[r].item # i

\* selections(): the (info, weight) pairs of the rows, in row order.
selections(rs) == [i \in 1..Len(rs) |-> [name |-> rs[i].name, weight |-> rs[i].weight]]

\* selectionsChanged.emit() unless loading; the handlers see selections().
EmitAlways(s) == [s EXCEPT !.log = Append(s.log, selections(s.rows))]

Emit(s) == IF s.loading THEN s ELSE EmitAlways(s)

\* LoraListItemWidget.set_weight on the widget of the given item.
set_weight(rs, item, weight) ==
    [i \in 1..Len(rs) |->
        IF rs[i].item = item THEN [rs[i] EXCEPT !.weight = SpinValue(weight)] ELSE rs[i]]

AppendRow(s, name, weight) ==
    LET item == NewItem(s.rows)
    IN  [s EXCEPT !.rows = Append(s.rows,
                      [item |-> item, name |-> name, weight |-> SpinValue(weight)]),
                  !.items = [s.items EXCEPT ![name] = item]]

add_or_update_Append(s, name, weight) == Emit(AppendRow(s, name, weight))

add_or_update_EmitLoading(s, name, weight) ==
    IF s.items[name] # NoItem
    THEN EmitAlways([s EXCEPT !.rows = set_weight(s.rows, s.items[name], weight)])
    ELSE EmitAlways(AppendRow(s, name, weight))

add_or_update_KeepWeight(s, name, weight) ==
    IF s.items[name] # NoItem THEN Emit(s) ELSE Emit(AppendRow(s, name, weight))

add_or_update_MoveToEnd(s, name, weight) ==
    IF s.items[name] # NoItem
    THEN Emit(AppendRow([s EXCEPT !.rows = SelectSeq(s.rows, LAMBDA r : r.name # name)],
                        name, weight))
    ELSE Emit(AppendRow(s, name, weight))

add_or_update(s, name, weight) ==
    IF s.items[name] # NoItem
    THEN Emit([s EXCEPT !.rows = set_weight(s.rows, s.items[name], weight)])
    ELSE Emit(AppendRow(s, name, weight))

remove_by_name_First(s, name) ==
    IF s.items[name] = NoItem
    THEN s
    ELSE Emit([s EXCEPT !.items = [s.items EXCEPT ![name] = NoItem],
                        !.rows = Tail(s.rows)])

\* _remove_by_name: pop the item, take its row out of the list, emit.
remove_by_name(s, name) ==
    IF s.items[name] = NoItem
    THEN s
    ELSE Emit([s EXCEPT !.items = [s.items EXCEPT ![name] = NoItem],
                        !.rows = SelectSeq(s.rows, LAMBDA r : r.item # s.items[name])])

ClearAll(s) == [s EXCEPT !.items = [n \in Names |-> NoItem], !.rows = <<>>]

clear_QuietWhenEmpty(s) ==
    IF s.rows = <<>> THEN s ELSE EmitAlways([ClearAll(s) EXCEPT !.loading = FALSE])

clear(s) ==
    LET cleared == ClearAll([s EXCEPT !.loading = TRUE])
    IN  EmitAlways([cleared EXCEPT !.loading = FALSE])

\* The loop of set_selections over the given (info, weight) pairs.
RECURSIVE Populate(_, _)
Populate(s, sel) ==
    IF sel = <<>>
    THEN s
    ELSE Populate(add_or_update(s, sel[1].name, sel[1].weight), Tail(sel))

set_selections(s, sel) ==
    LET cleared == ClearAll([s EXCEPT !.loading = TRUE])
        filled == Populate(cleared, sel)
    IN  EmitAlways([filled EXCEPT !.loading = FALSE])

ListState == [rows |-> rows, items |-> items, loading |-> loading, log |-> <<>>]

\* A call made by the owner (depth 0) or from inside a running handler.  Every
\* emit runs the handlers before the call returns, so the depth grows by one.
Called(result, call) ==
    /\ depth < MaxDepth
    /\ \E s \in {result} :
        /\ rows' = s.rows
        /\ items' = s.items
        /\ loading' = s.loading
        /\ emitLog' = s.log
        /\ depth' = IF s.log # <<>> THEN depth + 1 ELSE depth
    /\ lastCall' = call
    /\ UNCHANGED <<editVars, keyVars, tagVars, payVars, apiVars, genVars>>

CallRecord(op, name, weight, sel) ==
    [op |-> op, name |-> name, weight |-> weight, sel |-> sel,
     present |-> (name \in Names /\ items[name] # NoItem),
     empty |-> (rows = <<>>), at |-> depth]

Call_add_or_update ==
    \E name \in Names, weight \in InWeights :
        Called(add_or_update(ListState, name, weight),
               CallRecord("add_or_update", name, weight, <<>>))

Call_remove ==
    \E name \in Names :
        Called(remove_by_name(ListState, name), CallRecord("remove", name, 0, <<>>))

Call_clear == Called(clear(ListState), CallRecord("clear", "", 0, <<>>))

Call_set_selections ==
    \E sel \in SeqsUpTo(BulkItems, MaxSel) :
        Called(set_selections(ListState, sel), CallRecord("set_selections", "", 0, sel))

\* A change-notification handler returns to the emit that ran it.
HandlerReturn ==
    /\ depth > 0
    /\ depth' = depth - 1
    /\ UNCHANGED <<rows, items, loading, emitLog, lastCall>>
    /\ UNCHANGED <<editVars, keyVars, tagVars, payVars, apiVars, genVars>>

NoCall == [op |-> "none", name |-> "", weight |-> 0, sel |-> <<>>,
           present |-> FALSE, empty |-> TRUE, at |-> 0]

SelNext ==
    \/ Call_add_or_update
    \/ Call_remove
    \/ Call_clear
    \/ Call_set_selections
    \/ HandlerReturn

(***************************************************************************)
(* Text helpers (Python str methods on sequences of characters).           *)
(***************************************************************************)
IsSpace(c) == c \in {" ", "\n", "\r", "\t"}

\* Python s[a:b] for 0 <= a and b <= len(s).
Slice(s, a, b) == SubSeq(s, a + 1, b)

RECURSIVE lstrip(_)
lstrip(s) == IF s # <<>> /\ IsSpace(Head(s)) THEN lstrip(Tail(s)) ELSE s

RECURSIVE rstrip(_)
rstrip(s) == IF s # <<>> /\ IsSpace(s[Len(s)]) THEN rstrip(SubSeq(s, 1, Len(s) - 1)) ELSE s

strip(s) == rstrip(lstrip(s))

RECURSIVE rstripChar(_, _)
rstripChar(s, c) ==
    IF s # <<>> /\ s[Len(s)] = c THEN rstripChar(SubSeq(s, 1, Len(s) - 1), c) ELSE s

\* Python s.find(sub, from): the first offset >= from where sub occurs, or -1.
find(s, sub, from) ==
    LET hits == {i \in from..(Len(s) - Len(sub)) : Slice(s, i, i + Len(sub)) = sub}
    IN  IF hits = {} THEN -1 ELSE CHOOSE i \in hits : \A j \in hits : i <= j

(***************************************************************************)
(* decimal.Decimal: the value m * 10^(-e), e >= 0.                         *)
(***************************************************************************)
Digits == <<"0", "1", "2", "3", "4", "5", "6", "7", "8", "9">>

IsDigit(c) == c \in Range(Digits)

DigitValue(c) == (CHOOSE i \in 1..Len(Digits) : Digits[i] = c) - 1

IsDigits(s) == s # <<>> /\ \A i \in 1..Len(s) : IsDigit(s[i])

RECURSIVE DigitsValue(_)
DigitsValue(s) ==
    IF s = <<>> THEN 0
    ELSE DigitsValue(SubSeq(s, 1, Len(s) - 1)) * Len(Digits) + DigitValue(s[Len(s)])

RECURSIVE Pow10(_)
Pow10(e) == IF e = 0 THEN 1 ELSE Len(Digits) * Pow10(e - 1)

Dec(m, e) == [m |-> m, e |-> e]

\* The weight group of both patterns: -?\d+(?:\.\d+)?
IsWeightLiteral(w) ==
    LET u == IF w # <<>> /\ w[1] = "-" THEN Tail(w) ELSE w
        dot == find(u, <<".">>, 0)
    IN  IF dot = -1
        THEN IsDigits(u)
        ELSE IsDigits(Slice(u, 0, dot)) /\ IsDigits(Slice(u, dot + 1, Len(u)))

\* Decimal(literal) for a literal of the weight group.
Decimal(w) ==
    LET neg == w # <<>> /\ w[1] = "-"
        u == IF neg THEN Tail(w) ELSE w
        dot == find(u, <<".">>, 0)
        int == IF dot = -1 THEN u ELSE Slice(u, 0, dot)
        frac == IF dot = -1 THEN <<>> ELSE Slice(u, dot + 1, Len(u))
        m == DigitsValue(int \o frac)
    IN  Dec(IF neg THEN 0 - m ELSE m, Len(frac))

DecAdd(a, b) ==
    LET e == Max(a.e, b.e)
    IN  Dec(a.m * Pow10(e - a.e) + b.m * Pow10(e - b.e), e)

DecLess(a, b) == a.m * Pow10(Max(a.e, b.e) - a.e) < b.m * Pow10(Max(a.e, b.e) - b.e)

\* Decimal.normalize(): trailing zeros of the fraction dropped.
RECURSIVE normalize(_)
normalize(d) ==
    IF d.e > 0 /\ d.m % Len(Digits) = 0
    THEN normalize(Dec(d.m \div Len(Digits), d.e - 1))
    ELSE d

RECURSIVE NatChars(_)
NatChars(n) ==
    IF n < Len(Digits) THEN <<Digits[n + 1]>>
    ELSE NatChars(n \div Len(Digits)) \o <<Digits[(n % Len(Digits)) + 1]>>

RECURSIVE FracChars(_, _)
FracChars(f, e) ==
    IF e = 0 THEN <<>>
    ELSE FracChars(f \div Len(Digits), e - 1) \o <<Digits[(f % Len(Digits)) + 1]>>

\* format(d, "f") of a value >= 0.
Unsigned(d) ==
    IF d.e = 0 THEN NatChars(d.m)
    ELSE NatChars(d.m \div Pow10(d.e)) \o <<".">> \o FracChars(d.m % Pow10(d.e), d.e)

\* format(d, "f").
FixedPoint(d) == IF d.m < 0 THEN <<"-">> \o Unsigned(Dec(0 - d.m, d.e)) ELSE Unsigned(d)

HalfUp == Dec(5, 1)
HalfDown == Dec(-5, 1)
Deltas == {HalfUp, HalfDown}
ImplicitWeight == Dec(10, 1)
Zero == Dec(0, 0)

clamp_None(w) == w

\* new_weight below Decimal("0") becomes Decimal("0").
clamp(w) == IF DecLess(w, Zero) THEN Zero ELSE w

format_weight_Plain(w) == FixedPoint(w)

\* The rendering of the new weight.
format_weight(w) ==
    LET normalized == normalize(w)
    IN  IF normalized.e = 0
        THEN FixedPoint(normalized) \o <<".", "0">>
        ELSE LET f == rstripChar(rstripChar(FixedPoint(normalize(normalized)), "0"), ".")
             IN  IF f = <<>> THEN <<"0">> ELSE f

(***************************************************************************)
(* _TAG_WEIGHT_PATTERN and _SIMPLE_TAG_WEIGHT_PATTERN, matched against the *)
(* whole string.                                                           *)
(***************************************************************************)
NoMatch == [ok |-> FALSE, tag |-> <<>>, weight |-> <<>>]

\* What follows the tag: \s*:\s*W\s*\)$ (closed) or \s*:\s*W$, and its group W.
AfterTag(r, closed) ==
    LET r1 == lstrip(r)
        r2 == IF r1 = <<>> THEN <<>> ELSE lstrip(Tail(r1))
        w == IF closed
             THEN IF r2 # <<>> /\ r2[Len(r2)] = ")"
                  THEN rstrip(SubSeq(r2, 1, Len(r2) - 1)) ELSE <<>>
             ELSE r2
    IN  [ok |-> r1 # <<>> /\ r1[1] = ":" /\ IsWeightLiteral(w), weight |-> w]

\* The first match the backtracking search finds: after `lead` characters ("("
\* or nothing) the longest run of blanks (\s*, greedy), then the shortest tag
\* (.+?, lazy, no line feed) that the rest of the pattern follows.
PatternMatch(s, lead, closed) ==
    LET n == Len(s)
        cands == {c \in (0..n) \X (1..n) :
                     /\ lead + c[1] + c[2] <= n
                     /\ \A i \in (lead + 1)..(lead + c[1]) : IsSpace(s[i])
                     /\ \A i \in (lead + c[1] + 1)..(lead + c[1] + c[2]) : s[i] # "\n"
                     /\ AfterTag(Slice(s, lead + c[1] + c[2], n), closed).ok}
    IN  IF (lead = 1 /\ (n = 0 \/ s[1] # "(")) \/ cands = {}
        THEN NoMatch
        ELSE LET c == CHOOSE c \in cands :
                          \A d \in cands : c[1] > d[1] \/ (c[1] = d[1] /\ c[2] <= d[2])
             IN  [ok |-> TRUE,
                  tag |-> Slice(s, lead + c[1], lead + c[1] + c[2]),
                  weight |-> AfterTag(Slice(s, lead + c[1] + c[2], n), closed).weight]

TAG_WEIGHT_PATTERN(s) == PatternMatch(s, 1, TRUE)

SIMPLE_TAG_WEIGHT_PATTERN(s) == PatternMatch(s, 0, FALSE)

(***************************************************************************)
(* PromptTextEdit._adjust_selected_tag_weight.                             *)
(***************************************************************************)
NoToken == [ok |-> FALSE, grammar |-> "none", tag |-> <<>>, weight |-> Zero,
            core_start |-> 0, core_end |-> 0]

Token(grammar, tag, weight, core_start, core_end) ==
    [ok |-> TRUE, grammar |-> grammar, tag |-> tag, weight |-> weight,
     core_start |-> core_start, core_end |-> core_end]

\* A match of one of the two patterns on the trimmed selection: the span is
\* where group(0) is found in core_text.
Matched(grammar, m, whole, core_text, core_start) ==
    LET token_relative_start == find(core_text, whole, 0)
    IN  IF token_relative_start = -1
        THEN NoToken
        ELSE Token(grammar, strip(m.tag), Decimal(m.weight),
                   core_start + token_relative_start,
                   core_start + token_relative_start + Len(whole))

\* The selection sits inside an existing "(" ... ")".
Enclosing(t, expanded_start, expanded_end) ==
    LET closing_index == find(t, <<")">>, expanded_end)
        candidate == Slice(t, expanded_start - 1, closing_index + 1)
        candidate_match == TAG_WEIGHT_PATTERN(strip(candidate))
        inner == strip(Slice(strip(candidate), 1, Len(strip(candidate)) - 1))
    IN  IF closing_index = -1 THEN NoToken
        ELSE IF candidate_match.ok
        THEN Token("enclosing", strip(candidate_match.tag),
                   Decimal(candidate_match.weight), expanded_start - 1, closing_index + 1)
        ELSE IF inner = <<>> \/ "," \in Range(inner) THEN NoToken
        ELSE Token("enclosing", inner, ImplicitWeight, expanded_start - 1, closing_index + 1)

Fallback_NoCommaCheck(t, trimmed, core_start, core_end) ==
    IF core_start > 0 /\ t[core_start] = "("
    THEN Enclosing(t, core_start, core_end)
    ELSE Token("plain", trimmed, ImplicitWeight, core_start, core_end)

\* Neither pattern matched the trimmed selection.
Fallback(t, trimmed, core_start, core_end) ==
    IF core_start > 0 /\ t[core_start] = "("
    THEN Enclosing(t, core_start, core_end)
    ELSE IF "," \in Range(trimmed) THEN NoToken
    ELSE Token("plain", trimmed, ImplicitWeight, core_start, core_end)

recognise_EnclosingFirst(t, core_text, trimmed, core_start, core_end) ==
    IF TAG_WEIGHT_PATTERN(trimmed).ok
    THEN Matched("paren", TAG_WEIGHT_PATTERN(trimmed), trimmed, core_text, core_start)
    ELSE IF core_start > 0 /\ t[core_start] = "("
    THEN Enclosing(t, core_start, core_end)
    ELSE IF SIMPLE_TAG_WEIGHT_PATTERN(trimmed).ok
    THEN Matched("bare", SIMPLE_TAG_WEIGHT_PATTERN(trimmed), trimmed, core_text, core_start)
    ELSE Fallback(t, trimmed, core_start, core_end)

\* The grammars, in the order the code tries them.
recognise(t, core_text, trimmed, core_start, core_end) ==
    With(TAG_WEIGHT_PATTERN(trimmed), LAMBDA match :
        IF match.ok
        THEN Matched("paren", match, trimmed, core_text, core_start)
        ELSE With(SIMPLE_TAG_WEIGHT_PATTERN(trimmed), LAMBDA simple_match :
            IF simple_match.ok
            THEN Matched("bare", simple_match, trimmed, core_text, core_start)
            ELSE Fallback(t, trimmed, core_start, core_end)))

NotHandled(t, start, end) ==
    [handled |-> FALSE, text |-> t, selStart |-> start, selEnd |-> end,
     grammar |-> "none", tag |-> <<>>, weight |-> Zero, new_weight |-> Zero,
     core_start |-> start, core_end |-> end, replacement |-> <<>>]

\* f"({tag}:{formatted_weight})"
replacement(tag, formatted_weight) == <<"(">> \o tag \o <<":">> \o formatted_weight \o <<")">>

\* The new weight is written over [core_start, core_end) and selected.
rewrite(t, tok, delta) ==
    LET new_weight == clamp(DecAdd(tok.weight, delta))
        written == replacement(tok.tag, format_weight(new_weight))
    IN  [handled |-> TRUE,
         text |-> Slice(t, 0, tok.core_start) \o written \o Slice(t, tok.core_end, Len(t)),
         selStart |-> tok.core_start, selEnd |-> tok.core_start + Len(written),
         grammar |-> tok.grammar, tag |-> tok.tag, weight |-> tok.weight,
         new_weight |-> new_weight,
         core_start |-> tok.core_start, core_end |-> tok.core_end, replacement |-> written]

\* The selection without its leading and trailing blanks.
core_span_Untrimmed(raw_selection, start, end) == <<start, end>>

core_span(raw_selection, start, end) ==
    <<start + (Len(raw_selection) - Len(lstrip(raw_selection))),
      end - (Len(raw_selection) - Len(rstrip(raw_selection)))>>

adjust_selected_tag_weight(t, start, end, delta) ==
    LET raw_selection == Slice(t, start, end)
        core == core_span(raw_selection, start, end)
        core_text == Slice(t, core[1], core[2])
        trimmed == strip(core_text)
    IN  IF start = end THEN NotHandled(t, start, end)
        ELSE IF "\n" \in Range(raw_selection) \/ "\r" \in Range(raw_selection)
        THEN NotHandled(t, start, end)
        ELSE IF core[1] >= core[2] \/ trimmed = <<>> THEN NotHandled(t, start, end)
        ELSE With(recognise(t, core_text, trimmed, core[1], core[2]), LAMBDA tok :
                 IF ~tok.ok THEN NotHandled(t, start, end) ELSE rewrite(t, tok, delta))

(***************************************************************************)
(* The editor: a text with a selection, and the Up and Down keys.          *)
(***************************************************************************)
Alphabet == {"a", " ", ",", ":", "1", "(", ")", "\n"}

\* Longer selections than the enumerated ones.
LongSelections ==
    { <<"(", "a", ":", "1", ")">>,
      <<"(", "a", ":", "1", ".", "3", ")">>,
      <<"(", " ", "a", " ", ":", " ", "1", ".", "5", " ", ")">>,
      <<"(", "a", ":", "-", "1", ")">>,
      <<"(", "a", ",", "b", ":", "0", ".", "5", ")">>,
      <<" ", "(", "a", ":", "1", ")", " ">>,
      <<"a", ":", "1", ".", "2", "5">>,
      <<"a", ":", "1", ".", "3", "0">>,
      <<"a", ":", "-", "1">>,
      <<"a", " ", "b", ":", "0">>,
      <<"a", ":", "1">>,
      <<"a", ",", "b">>,
      <<"(", "a", ")">>,
      <<" ", "a", " ">>,
      <<"a", "(", "b">> }

Before == { <<>>, <<"(">>, <<"(", " ">>, <<"b", ",">> }

After == { <<>>, <<")">>, <<":", "1", ".", "3", ")">>, <<":", "-", "1", ")">>,
           <<",", "b", ")">>, <<"\n", "b", ")">>, <<")", ")">> }

Selections == SeqsUpTo(Alphabet, MaxSelLen) \cup LongSelections

NoAdjust == [called |-> FALSE, delta |-> Zero, text |-> <<>>, selStart |-> 0, selEnd |-> 0,
             result |-> NotHandled(<<>>, 0, 0)]

EditStart ==
    \E pre \in Before, body \in Selections, post \in After :
        /\ text = pre \o body \o post
        /\ selStart = Len(pre)
        /\ selEnd = Len(pre) + Len(body)
        /\ lastAdjust = NoAdjust

\* keyPressEvent for Up (+0.5) or Down (-0.5) without modifier.
Adjust(delta) ==
    \E result \in {adjust_selected_tag_weight(text, selStart, selEnd, delta)} :
        /\ ~DecLess(Dec(MaxWeight, 0), result.new_weight)
        /\ text' = result.text
        /\ selStart' = result.selStart
        /\ selEnd' = result.selEnd
        /\ lastAdjust' = [called |-> TRUE, delta |-> delta, text |-> text,
                          selStart |-> selStart, selEnd |-> selEnd, result |-> result]
        /\ UNCHANGED <<selVars, keyVars, tagVars, payVars, apiVars, genVars>>

KeyUp == Adjust(HalfUp)

KeyDown == Adjust(HalfDown)

EditNext ==
    \/ KeyUp
    \/ KeyDown

(***************************************************************************)
(* Case-insensitive comparison and ordering of strings (str.lower, and the *)
(* code point order that list.sort compares the lowered keys by).          *)
(***************************************************************************)
CodePoints == <<"\n", " ", "(", ")", ",", "-", ".", "0", "1", "2", "3", "4", "5",
                "6", "7", "8", "9", ":", ";", "A", "B", "C", "a", "b", "c">>

Ord(c) == CHOOSE i \in 1..Len(CodePoints) : CodePoints[i] = c

Lower(c) ==
    IF c = "A" THEN "a" ELSE IF c = "B" THEN "b" ELSE IF c = "C" THEN "c"
    ELSE IF c = "N" THEN "n" ELSE c

lower(s) == [i \in 1..Len(s) |-> Lower(s[i])]

\* a < b for two strings.
RECURSIVE StrLess(_, _)
StrLess(a, b) ==
    IF b = <<>> THEN FALSE
    ELSE IF a = <<>> THEN TRUE
    ELSE IF Head(a) # Head(b) THEN Ord(Head(a)) < Ord(Head(b))
    ELSE StrLess(Tail(a), Tail(b))

\* list.sort(key=str.lower): stable, so an entry goes after the entries whose
\* key is not greater than its own.
RECURSIVE sort_by_lower(_)
sort_by_lower(list) ==
    IF list = <<>> THEN <<>>
    ELSE LET sorted == sort_by_lower(SubSeq(list, 1, Len(list) - 1))
             last == list[Len(list)]
             k == Cardinality({i \in 1..Len(sorted) :
                                  ~StrLess(lower(last), lower(sorted[i]))})
         IN  SubSeq(sorted, 1, k) \o <<last>> \o SubSeq(sorted, k + 1, Len(sorted))

RECURSIVE Aggregate_Lowered(_, _, _)
Aggregate_Lowered(raw, seen, aggregated) ==
    IF raw = <<>> THEN aggregated
    ELSE IF strip(Head(raw)) = <<>> \/ lower(strip(Head(raw))) \in seen
    THEN Aggregate_Lowered(Tail(raw), seen, aggregated)
    ELSE Aggregate_Lowered(Tail(raw), seen \cup {lower(strip(Head(raw)))},
                           Append(aggregated, lower(strip(Head(raw)))))

\* The loop that strips each tag, drops the empty ones and keeps the first
\* tag of every lowered key.
RECURSIVE Aggregate(_, _, _)
Aggregate(raw, seen, aggregated) ==
    IF raw = <<>> THEN aggregated
    ELSE LET normalized == strip(Head(raw))
         IN  IF normalized = <<>> \/ lower(normalized) \in seen
             THEN Aggregate(Tail(raw), seen, aggregated)
             ELSE Aggregate(Tail(raw), seen \cup {lower(normalized)},
                            Append(aggregated, normalized))

(***************************************************************************)
(* PromptTextEdit: key events and the completion popup.  The selections of *)
(* the model are made forward, so the cursor position is the selection end.*)
(***************************************************************************)
minimum_completion_length == 2

NoModifier == "NoModifier"
ControlModifier == "ControlModifier"
Modifiers == {NoModifier, ControlModifier}

Key_Up == "Up"
Key_Down == "Down"
Key_Space == "Space"
Key_Return == "Return"
Key_Escape == "Escape"
\* The keys that are left to the completer while its popup is visible.
PopupKeys == {"Tab", "Backtab", "Enter", Key_Return, Key_Escape}
Keys == {Key_Up, Key_Down, Key_Space, Key_Escape, "a", ","}

\* The text a key inserts when it is pressed without modifier.
KeyText == [k \in {Key_Space, "a", ","} |-> IF k = Key_Space THEN " " ELSE k]

\* The lists set_tags is called with.
TagLists == { <<>>, << <<"a", "a">>, <<" ", "A", "1">>, <<"a", "1">>, <<>> >> }

set_tags(ts) == sort_by_lower(Aggregate(ts, {}, <<>>))

NoContext == [some |-> FALSE, start |-> 0, prefix |-> <<>>]

Context(start, prefix) == [some |-> TRUE, start |-> start, prefix |-> prefix]

Separators == {",", "\n", "\r"}

\* while start > 0 and text[start - 1] not in {",", "\n", "\r"}: start -= 1
RECURSIVE ScanBack(_, _)
ScanBack(t, start) ==
    IF start > 0 /\ t[start] \notin Separators THEN ScanBack(t, start - 1) ELSE start

current_completion_context_NoStrip(t, cursor_pos) ==
    IF t = <<>> \/ cursor_pos = 0 \/ ScanBack(t, cursor_pos) = cursor_pos
    THEN NoContext
    ELSE Context(ScanBack(t, cursor_pos), Slice(t, ScanBack(t, cursor_pos), cursor_pos))

current_completion_context(t, cursor_pos) ==
    IF t = <<>> \/ cursor_pos = 0
    THEN NoContext
    ELSE LET start == ScanBack(t, cursor_pos)
             fragment == Slice(t, start, cursor_pos)
             stripped_fragment == lstrip(fragment)
         IN  IF stripped_fragment = <<>>
             THEN NoContext
             ELSE Context(start + (Len(fragment) - Len(stripped_fragment)),
                          stripped_fragment)

\* What one key event did: the outcome of the weight adjustment, whether the
\* key went to QPlainTextEdit.keyPressEvent, whether _show_completions ran
\* and what it found and did to the popup.
NoDid == [adjust |-> "none", new_weight |-> Zero, accepted |-> "default", passed |-> FALSE,
          update |-> FALSE, resolved |-> FALSE, context |-> NoContext, popup |-> "none"]

EditorState ==
    [text |-> text, selStart |-> selStart, selEnd |-> selEnd, tags |-> tags,
     popupVisible |-> popupVisible, completion_context |-> completion_context,
     completionPrefix |-> completionPrefix, did |-> NoDid]

\* QCompleter filter: MatchContains, case-insensitive.
Completes(tag, prefix) ==
    \E i \in 0..(Len(tag) - Len(prefix)) :
        Slice(lower(tag), i, i + Len(prefix)) = lower(prefix)

hide(e) == [e EXCEPT !.popupVisible = FALSE, !.did.popup = "hide"]

\* QCompleter.complete: the popup is shown when a tag completes the prefix,
\* and hidden when none does.
complete(e) ==
    [e EXCEPT !.popupVisible = \E i \in 1..Len(e.tags) : Completes(e.tags[i], e.completionPrefix),
              !.did.popup = "complete"]

show(e, context) ==
    complete([e EXCEPT !.completionPrefix = context.prefix, !.completion_context = context])

show_completions_HideUnlessForced(e, force) ==
    IF Len(e.tags) = 0 THEN [e EXCEPT !.did.update = TRUE]
    ELSE IF force THEN show([e EXCEPT !.did.update = TRUE], Context(e.selEnd, <<>>))
    ELSE hide([e EXCEPT !.did.update = TRUE])

show_completions(e, force) ==
    IF Len(e.tags) = 0
    THEN [e EXCEPT !.did.update = TRUE]
    ELSE LET context == current_completion_context(e.text, e.selEnd)
             e1 == [e EXCEPT !.did.update = TRUE, !.did.resolved = TRUE,
                             !.did.context = context]
         IN  IF ~context.some /\ ~force THEN hide(e1)
             ELSE LET used == IF context.some THEN context ELSE Context(e.selEnd, <<>>)
                  IN  IF ~force /\ Len(used.prefix) < minimum_completion_length
                      THEN hide(e1)
                      ELSE show(e1, used)

\* QPlainTextEdit.keyPressEvent: a key with a text replaces the selection by
\* it, Up and Down leave the cursor, without selection, at an offset (not
\* after the cursor for Up, not before it for Down) that depends on the
\* layout, and a key pressed with Control edits nothing.
super_keyPressEvent(e, key, mod, where) ==
    LET e1 == [e EXCEPT !.did.passed = TRUE]
    IN  IF mod # NoModifier THEN e1
        ELSE IF key \in {Key_Up, Key_Down}
        THEN [e1 EXCEPT !.selStart = where, !.selEnd = where]
        ELSE IF key \in DOMAIN KeyText
        THEN [e1 EXCEPT !.text = Slice(e.text, 0, e.selStart) \o <<KeyText[key]>>
                                     \o Slice(e.text, e.selEnd, Len(e.text)),
                        !.selStart = e.selStart + 1, !.selEnd = e.selStart + 1]
        ELSE e1

\* What follows the weight adjustment in keyPressEvent.
handle_key(e, key, mod, where) ==
    IF e.popupVisible /\ key \in PopupKeys
    THEN [e EXCEPT !.did.accepted = "ignore"]
    ELSE show_completions(super_keyPressEvent(e, key, mod, where),
                          mod = ControlModifier /\ key = Key_Space)

adjusted(e, r) ==
    [e EXCEPT !.text = r.text, !.selStart = r.selStart, !.selEnd = r.selEnd,
              !.did.adjust = "applied", !.did.new_weight = r.new_weight,
              !.did.accepted = "accept"]

keyPressEvent_AnyModifier(e, key, mod, where) ==
    IF key \in {Key_Up, Key_Down}
    THEN With(adjust_selected_tag_weight(e.text, e.selStart, e.selEnd,
                                         IF key = Key_Up THEN HalfUp ELSE HalfDown),
              LAMBDA r : IF r.handled THEN adjusted(e, r)
                         ELSE handle_key([e EXCEPT !.did.adjust = "refused"],
                                         key, mod, where))
    ELSE handle_key(e, key, mod, where)

keyPressEvent(e, key, mod, where) ==
    IF mod = NoModifier /\ key \in {Key_Up, Key_Down}
    THEN With(adjust_selected_tag_weight(e.text, e.selStart, e.selEnd,
                                         IF key = Key_Up THEN HalfUp ELSE HalfDown),
              LAMBDA r : IF r.handled THEN adjusted(e, r)
                         ELSE handle_key([e EXCEPT !.did.adjust = "refused"],
                                         key, mod, where))
    ELSE handle_key(e, key, mod, where)

\* The texts an editor is given before the keys of the model are pressed.
KeyTexts == { <<>>, <<"a">>, <<"a", "a">>, <<",", "a", "a">>, <<",", " ", "a">>,
              <<"a", ",">>, <<"a", "\n">>, <<"\n", "a", "a">>, <<" ", " ">> }

NoKey == [op |-> "none", key |-> "", mod |-> NoModifier, did |-> NoDid, was |-> FALSE]

\* A text with a selection or a cursor, in an editor just constructed.
KeyStart ==
    /\ text \in KeyTexts
    /\ selStart \in 0..Len(text)
    /\ selEnd \in selStart..Len(text)
    /\ lastAdjust = NoAdjust

KeyPress ==
    \E key \in Keys, mod \in Modifiers, where \in 0..Len(text) :
        /\ \/ mod = NoModifier /\ key = Key_Up /\ where <= selEnd
           \/ mod = NoModifier /\ key = Key_Down /\ where >= selEnd
           \/ where = selEnd
        /\ \E e \in {keyPressEvent(EditorState, key, mod, where)} :
            /\ Len(e.text) <= MaxText \/ e.text = text \/ e.did.adjust = "applied"
            /\ ~DecLess(Dec(MaxWeight, 0), e.did.new_weight)
            /\ text' = e.text
            /\ selStart' = e.selStart
            /\ selEnd' = e.selEnd
            /\ popupVisible' = e.popupVisible
            /\ completion_context' = e.completion_context
            /\ completionPrefix' = e.completionPrefix
            /\ lastKey' = [op |-> "key", key |-> key, mod |-> mod, did |-> e.did,
                           was |-> popupVisible]
        /\ UNCHANGED <<tags, lastAdjust, selVars, tagVars, payVars, apiVars, genVars>>

\* set_tags puts the list into the completer's model; a visible popup stays.
SetTags ==
    \E ts \in TagLists :
        /\ tags' = set_tags(ts)
        /\ lastKey' = [NoKey EXCEPT !.op = "set_tags", !.was = popupVisible]
        /\ UNCHANGED <<text, selStart, selEnd, lastAdjust, popupVisible,
                       completion_context, completionPrefix, selVars, tagVars,
                       payVars, apiVars, genVars>>

\* _insert_completion.  cursor.setPosition(start) is ignored for a position
\* after the end of the text and leaves the cursor of the editor;
\* movePosition(Right, KeepAnchor, n) moves as far as the text goes, and
\* insertText replaces what is between anchor and position.
insert_completion(e, completion) ==
    IF ~e.completion_context.some THEN e
    ELSE LET start == e.completion_context.start
             prefix == e.completion_context.prefix
             anchor == IF start <= Len(e.text) THEN start ELSE e.selStart
             position == IF start <= Len(e.text) THEN start ELSE e.selEnd
             moved == IF position + Len(prefix) <= Len(e.text) THEN position + Len(prefix)
                      ELSE Len(e.text)
         IN  hide([e EXCEPT !.text = Slice(e.text, 0, anchor) \o completion
                                     \o Slice(e.text, moved, Len(e.text)),
                            !.selStart = anchor + Len(completion),
                            !.selEnd = anchor + Len(completion),
                            !.completion_context = NoContext])

\* The rows of the popup: the tags the completer's filter lets through.
completions(e) == {e.tags[i] : i \in {j \in 1..Len(e.tags) : Completes(e.tags[j], e.completionPrefix)}}

Inserted(e, completion, again) ==
    /\ Len(e.text) <= MaxText + 1
    /\ text' = e.text
    /\ selStart' = e.selStart
    /\ selEnd' = e.selEnd
    /\ popupVisible' = e.popupVisible
    /\ completion_context' = e.completion_context
    /\ completionPrefix' = e.completionPrefix
    /\ lastKey' = [op |-> "insert", key |-> "", mod |-> NoModifier, did |-> e.did,
                   was |-> popupVisible, completion |-> completion, again |-> again]
    /\ UNCHANGED <<tags, lastAdjust, selVars, tagVars, payVars, apiVars, genVars>>

\* QCompleter.activated: the user takes a row of the visible popup, by a
\* click or by Return; the completer calls _insert_completion with its text.
Activated ==
    /\ popupVisible
    /\ \E completion \in completions(EditorState) :
          \E e \in {insert_completion(EditorState, completion)} : Inserted(e, completion, FALSE)

\* The signal is delivered once more, the popup not having been shown again.
ActivatedAgain ==
    /\ lastKey.op = "insert" /\ ~lastKey.again
    /\ \E e \in {insert_completion(EditorState, lastKey.completion)} :
          Inserted(e, lastKey.completion, TRUE)

KeyNext ==
    \/ KeyPress
    \/ SetTags
    \/ Activated
    \/ ActivatedAgain

(***************************************************************************)
(* TagRepository (tag_completion.py).  A file is its path, its suffix      *)
(* (lowered), and what reading it gives: lines of text, the rows and cells *)
(* csv.reader gives, or the value json.loads gives.  A file that cannot be *)
(* read or decoded raises, and so does json.loads on a malformed text.     *)
(***************************************************************************)
Yielded(ts) == [tags |-> ts, raised |-> FALSE]

\* The tags yielded before the exception are kept: the caller has them.
Raised(ts) == [tags |-> ts, raised |-> TRUE]

\* A JSON value: a string, a list, a mapping (pairs of key and value), or
\* another value (number, null); "invalid" is a text that is not JSON.
Json(type, str, elems) == [type |-> type, str |-> str, elems |-> elems]

JsonStr(str) == Json("str", str, <<>>)

JsonOther == Json("other", <<>>, <<>>)

JsonInvalid == Json("invalid", <<>>, <<>>)

File(path, suffix, nested, readable, lines, cells, data) ==
    [path |-> path, is_file |-> TRUE, suffix |-> suffix, nested |-> nested,
     readable |-> readable, lines |-> lines, rows |-> cells, data |-> data]

\* tag.split(",", 1)[0]
BeforeComma(tag) == Slice(tag, 0, find(tag, <<",">>, 0))

RECURSIVE txt_tags(_)
txt_tags(lines) ==
    IF lines = <<>> THEN <<>>
    ELSE LET tag == strip(Head(lines))
         IN  (IF tag = <<>> THEN <<>>
              ELSE IF "," \in Range(tag) THEN <<strip(BeforeComma(tag))>>
              ELSE <<tag>>) \o txt_tags(Tail(lines))

load_txt(f) == IF f.readable THEN Yielded(txt_tags(f.lines)) ELSE Raised(<<>>)

\* The lines of a compressed file that is neither csv nor json.
RECURSIVE stripped_lines(_)
stripped_lines(lines) ==
    IF lines = <<>> THEN <<>>
    ELSE (IF strip(Head(lines)) = <<>> THEN <<>> ELSE <<strip(Head(lines))>>)
         \o stripped_lines(Tail(lines))

\* The strings among the entries of a JSON list.
RECURSIVE json_strings(_)
json_strings(elems) ==
    IF elems = <<>> THEN <<>>
    ELSE (IF Head(elems).type = "str" THEN <<Head(elems).str>> ELSE <<>>)
         \o json_strings(Tail(elems))

\* Key and value of every item of a JSON mapping.
RECURSIVE json_items(_)
json_items(pairs) ==
    IF pairs = <<>> THEN <<>>
    ELSE LET value == Head(pairs).value
         IN  <<Head(pairs).key>>
             \o (IF value.type = "str" THEN <<value.str>>
                 ELSE IF value.type = "list" THEN json_strings(value.elems)
                 ELSE <<>>)
             \o json_items(Tail(pairs))

load_json(f) ==
    IF ~f.readable \/ f.data.type = "invalid" THEN Raised(<<>>)
    ELSE IF f.data.type = "map" THEN Yielded(json_items(f.data.elems))
    ELSE IF f.data.type = "list" THEN Yielded(json_strings(f.data.elems))
    ELSE IF f.data.type = "str" THEN Yielded(<<f.data.str>>)
    ELSE Yielded(<<>>)

\* value.replace(";", ",").split(","), each part stripped, the empty dropped.
RECURSIVE split_aliases(_)
split_aliases(value) ==
    LET cuts == {i \in 1..Len(value) : value[i] \in {",", ";"}}
        cut == IF cuts = {} THEN Len(value) + 1 ELSE CHOOSE i \in cuts : \A j \in cuts : i <= j
        stripped == strip(SubSeq(value, 1, cut - 1))
    IN  (IF stripped = <<>> THEN <<>> ELSE <<stripped>>)
        \o (IF cuts = {} THEN <<>> ELSE split_aliases(SubSeq(value, cut + 1, Len(value))))

NoIndex == -1

\* tag_index and alias_index are 0-based.
consume_csv_row(row, tag_index, alias_index) ==
    IF row = <<>> THEN <<>>
    ELSE (IF tag_index < Len(row) /\ strip(row[tag_index + 1]) # <<>>
          THEN <<strip(row[tag_index + 1])>> ELSE <<>>)
         \o (IF alias_index # NoIndex /\ alias_index < Len(row)
             THEN split_aliases(row[alias_index + 1]) ELSE <<>>)

RECURSIVE consume_csv_rows(_, _, _)
consume_csv_rows(reader, tag_index, alias_index) ==
    IF reader = <<>> THEN <<>>
    ELSE consume_csv_row(Head(reader), tag_index, alias_index)
         \o consume_csv_rows(Tail(reader), tag_index, alias_index)

TagHeaders == { <<"t", "a", "g">>, <<"n", "a", "m", "e">> }

AliasHeaders == { <<"a", "l", "i", "a", "s">>, <<"a", "l", "i", "a", "s", "e", "s">> }

\* The last header of the given names, 0-based, or the default.
HeaderIndex(headers, names, default) ==
    LET hits == {i \in 1..Len(headers) : headers[i] \in names}
    IN  IF hits = {} THEN default ELSE (CHOOSE i \in hits : \A j \in hits : j <= i) - 1

csv_tags(reader) ==
    IF reader = <<>> THEN <<>>
    ELSE LET first_row == Head(reader)
             normalized_headers == [i \in 1..Len(first_row) |-> lower(strip(first_row[i]))]
             has_header == \E i \in 1..Len(first_row) :
                               normalized_headers[i] \in TagHeaders \cup AliasHeaders
         IN  IF has_header
             THEN consume_csv_rows(Tail(reader), HeaderIndex(normalized_headers, TagHeaders, 0),
                                   HeaderIndex(normalized_headers, AliasHeaders, NoIndex))
             ELSE consume_csv_row(first_row, 0, NoIndex)
                  \o consume_csv_rows(Tail(reader), 0, NoIndex)

load_csv(f) == IF f.readable THEN Yielded(csv_tags(f.rows)) ELSE Raised(<<>>)

load_compressed(f) ==
    IF ~f.readable THEN Raised(<<>>)
    ELSE IF f.nested = "csv" THEN load_csv(f)
    ELSE IF f.nested = "json" THEN load_json(f)
    ELSE Yielded(stripped_lines(f.lines))

load_file(f) ==
    IF f.suffix = ".json" THEN load_json(f)
    ELSE IF f.suffix = ".csv" THEN load_csv(f)
    ELSE IF f.suffix = ".txt" THEN load_txt(f)
    ELSE IF f.suffix = ".gz" THEN load_compressed(f)
    ELSE Yielded(<<>>)

\* sorted(base_path.rglob("*")): the entries of a directory by path.
RECURSIVE sorted_paths(_)
sorted_paths(entries) ==
    IF entries = {} THEN <<>>
    ELSE LET first == CHOOSE f \in entries :
                          \A g \in entries : g = f \/ StrLess(f.path, g.path)
         IN  <<first>> \o sorted_paths(entries \ {first})

\* The files reload reads, in its order: the search paths in their order,
\* skipping what is not a directory, and in each the files by path.
RECURSIVE scanned(_)
scanned(dirs) ==
    IF dirs = <<>> THEN <<>>
    ELSE (IF Head(dirs).is_dir
          THEN SelectSeq(sorted_paths(Head(dirs).entries), LAMBDA f : f.is_file)
          ELSE <<>>) \o scanned(Tail(dirs))

LoweredSet(list) == {lower(list[i]) : i \in 1..Len(list)}

\* The loop of reload over the files: an exception of a file ends it.
RECURSIVE aggregate_files(_, _)
aggregate_files(files, aggregated) ==
    IF files = <<>> THEN Yielded(aggregated)
    ELSE With(load_file(Head(files)), LAMBDA loaded :
             With(Aggregate(loaded.tags, LoweredSet(aggregated), aggregated), LAMBDA agg :
                 IF loaded.raised THEN Raised(agg)
                 ELSE aggregate_files(Tail(files), agg)))

\* What reload() leaves: the list _tags refers to, whether it raised, and what
\* the list object _tags referred to before the call now holds.
Reloaded(ts, raised, held) == [tags |-> ts, raised |-> raised, held |-> held]

reload_InPlace(previous, dirs) ==
    With(aggregate_files(scanned(dirs), <<>>), LAMBDA r :
        IF r.raised THEN Reloaded(r.tags, TRUE, r.tags)
        ELSE Reloaded(sort_by_lower(r.tags), FALSE, sort_by_lower(r.tags)))

\* reload(): the list is built in the local aggregated and bound to _tags by
\* the last statement; an exception leaves _tags as it is.
reload(previous, dirs) ==
    With(aggregate_files(scanned(dirs), <<>>), LAMBDA r :
        IF r.raised THEN Reloaded(previous, TRUE, previous)
        ELSE Reloaded(sort_by_lower(r.tags), FALSE, previous))

\* The files of the model.  Paths are compared as strings: "B" < "a" < "a1".
TxtFile(path, readable, lines) == File(path, ".txt", "", readable, lines, <<>>, JsonOther)

JsonFile(path, data) == File(path, ".json", "", TRUE, <<>>, <<>>, data)

CsvFile(path, cells) == File(path, ".csv", "", TRUE, <<>>, cells, JsonOther)

\* a.txt: "Cat", " b "
FileCat == TxtFile(<<"a">>, TRUE, << <<"C", "a", "t">>, <<" ", "b", " ">> >>)

\* b.txt: "cat, 500", "", ",a"
FileCatCount ==
    TxtFile(<<"b">>, TRUE, << <<"c", "a", "t", ",", " ", "5", "0", "0">>, <<>>, <<",", "a">> >>)

\* B.json: ["B", 5, "c "]
FileJsonList ==
    JsonFile(<<"B">>, Json("list", <<>>, <<JsonStr(<<"B">>), JsonOther, JsonStr(<<"c", " ">>)>>))

\* c.json: {"A": "a", "1": ["b", 2], "c": 3}
FileJsonMap ==
    JsonFile(<<"c">>,
             Json("map", <<>>,
                  << [key |-> <<"A">>, value |-> JsonStr(<<"a">>)],
                     [key |-> <<"1">>, value |-> Json("list", <<>>, <<JsonStr(<<"b">>), JsonOther>>)],
                     [key |-> <<"c">>, value |-> JsonOther] >>))

\* a1.json: not JSON
FileJsonBad == JsonFile(<<"a", "1">>, JsonInvalid)

\* a.csv: " Name,aliases" / "b,A;c, " / "" / "C"
FileCsvHeader ==
    CsvFile(<<"a">>, << << <<" ", "N", "a", "m", "e">>, <<"a", "l", "i", "a", "s", "e", "s">> >>,
                        << <<"b">>, <<"A", ";", "c", ",", " ">> >>,
                        <<>>,
                        << <<"C">> >> >>)

\* b.csv: "c ,9" / " "
FileCsvPlain == CsvFile(<<"b">>, << << <<"c", " ">>, <<"9">> >>, << <<" ">> >> >>)

\* c.txt.gz: "a, 1", ""
FileGz == File(<<"c">>, ".gz", "txt", TRUE, << <<"a", ",", " ", "1">>, <<>> >>, <<>>, JsonOther)

\* c1.txt: cannot be read
FileUnreadable == TxtFile(<<"c", "1">>, FALSE, <<>>)

\* 0.png
FilePng == File(<<"0">>, ".png", "", FALSE, <<>>, <<>>, JsonOther)

\* A subdirectory.
SubDir == [FilePng EXCEPT !.path = <<"1">>, !.is_file = FALSE, !.suffix = ""]

Dir(entries) == [is_dir |-> TRUE, entries |-> entries]

NoDir == [is_dir |-> FALSE, entries |-> {}]

\* What a search path may be found to hold at a reload.
Directories ==
    { NoDir,
      Dir({}),
      Dir({FileCat, FileCatCount}),
      Dir({FileJsonList, FileJsonMap, SubDir}),
      Dir({FileCsvHeader, FileCsvPlain, FileGz}),
      Dir({FileJsonBad, FileCatCount}),
      Dir({FileCat, FileUnreadable, FilePng}) }

NoReload == [called |-> FALSE, dirs |-> <<>>, raised |-> FALSE, before |-> <<>>, held |-> <<>>]

\* TagRepository(search_paths): _tags = [] and a reload() that returns.
TagStart ==
    \E dirs \in SeqsUpTo(Directories, MaxDirs) :
        \E r \in {reload(<<>>, dirs)} :
            /\ ~r.raised
            /\ repo_tags = r.tags
            /\ lastReload = NoReload

Reload ==
    \E dirs \in SeqsUpTo(Directories, MaxDirs) :
        \E r \in {reload(repo_tags, dirs)} :
            /\ repo_tags' = r.tags
            /\ lastReload' = [called |-> TRUE, dirs |-> dirs, raised |-> r.raised,
                              before |-> repo_tags, held |-> r.held]
            /\ UNCHANGED <<selVars, editVars, keyVars, payVars, apiVars, genVars>>

TagNext == Reload

(***************************************************************************)
(* GenerationRequest.to_payload (models.py).  Python values carry their    *)
(* type: None, str (a character sequence), int, float (a decimal value     *)
(* that the float holds exactly); a dict is a function on its keys.        *)
(***************************************************************************)
None == [none |-> TRUE]

PyStr(s) == [str |-> s]

PyInt(n) == [int |-> n]

PyFloat(d) == [float |-> d]

EmptyDict == [k \in {} |-> None]

\* d[k] = v
Put(d, k, v) == [x \in (DOMAIN d) \cup {k} |-> IF x = k THEN v ELSE d[x]]

\* d.setdefault(k, v), as the dict it leaves.
setdefault(d, k, v) == IF k \in DOMAIN d THEN d ELSE Put(d, k, v)

update_KeepExisting(d, other) ==
    [x \in (DOMAIN d) \cup (DOMAIN other) |-> IF x \in DOMAIN d THEN d[x] ELSE other[x]]

\* d.update(other), as the dict it leaves.
update(d, other) ==
    [x \in (DOMAIN d) \cup (DOMAIN other) |-> IF x \in DOMAIN other THEN other[x] ELSE d[x]]

\* payload.setdefault(outer, {})[k] = v
PutIn(d, outer, k, v) ==
    With(setdefault(d, outer, EmptyDict), LAMBDA q : Put(q, outer, Put(q[outer], k, v)))

Truthy_NotNone(v) == v # None

\* The truth value of an Optional[str]: neither None nor "".
Truthy(v) == v # None /\ v.str # <<>>

RECURSIVE join(_, _)
join(sep, parts) ==
    IF parts = <<>> THEN <<>>
    ELSE IF Len(parts) = 1 THEN parts[1]
    ELSE parts[1] \o sep \o join(sep, Tail(parts))

\* The value of d rounded to two places, halves to the even neighbour.
Round2(d) ==
    IF d.e <= 2 THEN Dec(d.m * Pow10(2 - d.e), 2)
    ELSE LET scale == Pow10(d.e - 2)
             a == IF d.m < 0 THEN 0 - d.m ELSE d.m
             q == a \div scale
             r == a % scale
             up == 2 * r > scale \/ (2 * r = scale /\ q % 2 = 1)
             n == IF up THEN q + 1 ELSE q
         IN  Dec(IF d.m < 0 THEN 0 - n ELSE n, 2)

\* f"{weight:.2f}"
Fixed2(d) == FixedPoint(Round2(d))

LoraSelection(name, alias, weight) == [name |-> name, alias |-> alias, weight |-> weight]

prompt_tag_Name(selection) ==
    LET stripped == rstripChar(rstripChar(Fixed2(selection.weight.float), "0"), ".")
    IN  <<"<", "l", "o", "r", "a", ":">> \o selection.name.str \o <<":">> \o stripped \o <<">">>

prompt_tag(selection) ==
    LET stripped == rstripChar(rstripChar(Fixed2(selection.weight.float), "0"), ".")
        weight_str == IF stripped = <<>> THEN <<"1">> ELSE stripped
        shown == IF Truthy(selection.alias) THEN selection.alias ELSE selection.name
    IN  <<"<", "l", "o", "r", "a", ":">> \o shown.str \o <<":">> \o weight_str \o <<">">>

to_script_args(selection) == <<selection.name, selection.weight>>

\* GenerationRequest(): every field at its default.
GenerationRequest ==
    [prompt |-> PyStr(<<>>),
     negative_prompt |-> PyStr(<<>>),
     steps |-> PyInt(20),
     sampler |-> PyStr(<<"E", "u", "l", "e", "r", " ", "a">>),
     scheduler |-> None,
     cfg_scale |-> PyFloat(Dec(70, 1)),
     width |-> PyInt(512),
     height |-> PyInt(512),
     batch_size |-> PyInt(1),
     batch_count |-> PyInt(1),
     seed |-> PyInt(-1),
     subseed |-> None,
     clip_skip |-> None,
     checkpoint |-> None,
     vae |-> None,
     text_encoder |-> None,
     gpu_weights_mb |-> None,
     loras |-> <<>>,
     additional_options |-> EmptyDict]

merge_additional_options_IntoRequest(self, p) ==
    LET merged == update(self.additional_options,
                         IF "override_settings" \in DOMAIN p THEN p["override_settings"]
                         ELSE EmptyDict)
    IN  [self |-> [self EXCEPT !.additional_options = merged],
         returned |-> Put(p, "override_settings", merged)]

\* payload.setdefault("override_settings", {}).update(self.additional_options):
\* the dict that is updated belongs to the payload, the request's is only read.
merge_additional_options(self, p) ==
    [self |-> self,
     returned |-> With(setdefault(p, "override_settings", EmptyDict),
                       LAMBDA q : Put(q, "override_settings",
                                      update(q["override_settings"], self.additional_options)))]

\* The payload returned, and the request as the call leaves it.
to_payload(self) ==
    LET own == IF self.prompt.str # <<>> THEN <<self.prompt.str>> ELSE <<>>
        lora_tags == join(<<" ">>, [i \in 1..Len(self.loras) |-> prompt_tag(self.loras[i])])
        prompt_segments == IF self.loras # <<>> THEN Append(own, lora_tags) ELSE own
        base ==
            [prompt |-> PyStr(join(<<"\n">>,
                                   SelectSeq(prompt_segments, LAMBDA segment : segment # <<>>))),
             negative_prompt |-> self.negative_prompt,
             steps |-> self.steps,
             sampler_name |-> self.sampler,
             cfg_scale |-> self.cfg_scale,
             width |-> self.width,
             height |-> self.height,
             batch_size |-> self.batch_size,
             n_iter |-> self.batch_count,
             seed |-> self.seed]
        with_scheduler ==
            IF Truthy(self.scheduler) THEN Put(base, "scheduler", self.scheduler) ELSE base
        with_subseed ==
            IF self.subseed # None
            THEN Put(with_scheduler, "subseed", self.subseed)
            ELSE with_scheduler
        with_clip_skip ==
            IF self.clip_skip # None
            THEN PutIn(with_subseed, "override_settings", "CLIP_stop_at_last_layers",
                       self.clip_skip)
            ELSE with_subseed
        with_checkpoint ==
            IF Truthy(self.checkpoint)
            THEN PutIn(with_clip_skip, "override_settings", "sd_model_checkpoint",
                       self.checkpoint)
            ELSE with_clip_skip
        with_vae ==
            IF Truthy(self.vae)
            THEN PutIn(with_checkpoint, "override_settings", "sd_vae", self.vae)
            ELSE with_checkpoint
        with_text_encoder ==
            IF Truthy(self.text_encoder)
            THEN PutIn(with_vae, "override_settings", "sd_text_encoder", self.text_encoder)
            ELSE with_vae
        with_gpu_weights ==
            IF self.gpu_weights_mb # None
            THEN PutIn(with_text_encoder, "override_settings", "gpu_weights_limit_mb",
                       self.gpu_weights_mb)
            ELSE with_text_encoder
        with_loras ==
            IF self.loras # <<>>
            THEN PutIn(with_gpu_weights, "alwayson_scripts", "LoRA",
                       [args |-> [i \in 1..Len(self.loras) |-> to_script_args(self.loras[i])]])
            ELSE with_gpu_weights
    IN  merge_additional_options(self, with_loras)

\* The requests that are built.
Prompts == {PyStr(<<>>), PyStr(<<"p">>)}

Schedulers == {None, PyStr(<<>>), PyStr(<<"k">>)}

Subseeds == {None, PyInt(0)}

ClipSkips == {None, PyInt(0)}

Checkpoints == {None, PyStr(<<>>), PyStr(<<"m">>)}

Vaes == {None, PyStr(<<"v">>)}

TextEncoders == {None, PyStr(<<"t">>)}

GpuWeights == {None, PyInt(4096)}

LoraSelections ==
    {LoraSelection(PyStr(<<"A">>), None, PyFloat(Dec(10, 1))),
     LoraSelection(PyStr(<<"B">>), PyStr(<<"b">>), PyFloat(Dec(125, 3))),
     LoraSelection(PyStr(<<"C">>), PyStr(<<>>), PyFloat(Dec(5, 1)))}

LoraLists == SeqsUpTo(LoraSelections, MaxLoras)

AdditionalOptions ==
    {EmptyDict,
     [sd_vae |-> PyStr(<<"o">>)],
     [eta |-> None]}

Requests ==
    {[GenerationRequest EXCEPT !.prompt = f[1], !.scheduler = f[2], !.subseed = f[3],
                               !.clip_skip = f[4], !.checkpoint = f[5], !.vae = f[6],
                               !.text_encoder = f[7], !.gpu_weights_mb = f[8],
                               !.loras = f[9], !.additional_options = f[10]] :
        f \in Prompts \X Schedulers \X Subseeds \X ClipSkips \X Checkpoints \X Vaes
              \X TextEncoders \X GpuWeights \X LoraLists \X AdditionalOptions}

NoPayload == [called |-> FALSE]

PayStart ==
    /\ request \in Requests
    /\ payload = NoPayload
    /\ prior = NoPayload

\* request.to_payload()
ToPayload ==
    /\ \E r \in {to_payload(request)} :
          /\ payload' = r.returned
          /\ request' = r.self
    /\ prior' = payload
    /\ UNCHANGED <<selVars, editVars, keyVars, tagVars, apiVars, genVars>>

PayNext == ToPayload

(***************************************************************************)
(* StableDiffusionClient (api_client.py) and the base URL bar of the main  *)
(* window (gui/main_window.py).  A value decoded from JSON is None, a      *)
(* PyStr, a PyInt, a PyList or a PyDict whose keys are character           *)
(* sequences; URLs are character sequences.                                *)
(***************************************************************************)
PyList(elems) == [list |-> elems]

PyDict(map) == [dict |-> map]

NoEntries == [k \in {} |-> None]

IsStr(v) == DOMAIN v = {"str"}

IsList(v) == DOMAIN v = {"list"}

IsDict(v) == DOMAIN v = {"dict"}

\* d.get(key, default) of a decoded object.
dict_get(d, key, default) == IF key \in DOMAIN d.dict THEN d.dict[key] ELSE default

\* payload.get(key, default) of a payload.
payload_get(p, key, default) == IF key \in DOMAIN p THEN p[key] ELSE default

ParseFail == [ok |-> FALSE, value |-> None, rest |-> <<>>]

Parsed(v, rest) == [ok |-> TRUE, value |-> v, rest |-> rest]

Quote == "\""

\* The characters up to the closing quote, and what follows it.
scan_string(s) ==
    LET q == find(s, <<Quote>>, 0)
    IN  IF q = -1 THEN ParseFail ELSE Parsed(Slice(s, 0, q), Slice(s, q + 1, Len(s)))

RECURSIVE LeadingDigits(_)
LeadingDigits(s) == IF s # <<>> /\ IsDigit(Head(s)) THEN 1 + LeadingDigits(Tail(s)) ELSE 0

\* An integer literal: "0", or digits that do not start with "0".
scan_number(s) ==
    LET n == IF s[1] = "0" THEN 1 ELSE LeadingDigits(s)
    IN  Parsed(PyInt(DigitsValue(Slice(s, 0, n))), Slice(s, n, Len(s)))

Starts(s, prefix) == Len(s) >= Len(prefix) /\ Slice(s, 0, Len(prefix)) = prefix

RECURSIVE parse_value(_)
RECURSIVE parse_elements(_, _)
RECURSIVE parse_members(_, _)

\* A JSON value at the start of s (no white space, escapes, fractions or
\* booleans: the texts of the model hold none).
parse_value(s) ==
    IF s = <<>> THEN ParseFail
    ELSE IF Starts(s, <<"{", "}">>) THEN Parsed(PyDict(NoEntries), Slice(s, 2, Len(s)))
    ELSE IF s[1] = "{" THEN parse_members(Tail(s), NoEntries)
    ELSE IF Starts(s, <<"[", "]">>) THEN Parsed(PyList(<<>>), Slice(s, 2, Len(s)))
    ELSE IF s[1] = "[" THEN parse_elements(Tail(s), <<>>)
    ELSE IF s[1] = Quote
         THEN With(scan_string(Tail(s)),
                   LAMBDA r : IF r.ok THEN Parsed(PyStr(r.value), r.rest) ELSE ParseFail)
    ELSE IF IsDigit(s[1]) THEN scan_number(s)
    ELSE IF Starts(s, <<"n", "u", "l", "l">>) THEN Parsed(None, Slice(s, 4, Len(s)))
    ELSE ParseFail

parse_elements(s, acc) ==
    With(parse_value(s),
         LAMBDA r :
            IF ~r.ok \/ r.rest = <<>> THEN ParseFail
            ELSE IF r.rest[1] = "," THEN parse_elements(Tail(r.rest), Append(acc, r.value))
            ELSE IF r.rest[1] = "]" THEN Parsed(PyList(Append(acc, r.value)), Tail(r.rest))
            ELSE ParseFail)

parse_members(s, acc) ==
    IF s = <<>> \/ s[1] # Quote THEN ParseFail
    ELSE With(scan_string(Tail(s)),
              LAMBDA k :
                 IF ~k.ok \/ k.rest = <<>> \/ k.rest[1] # ":" THEN ParseFail
                 ELSE With(parse_value(Tail(k.rest)),
                           LAMBDA r :
                              IF ~r.ok \/ r.rest = <<>> THEN ParseFail
                              ELSE IF r.rest[1] = ","
                                   THEN parse_members(Tail(r.rest), (k.value :> r.value) @@ acc)
                              ELSE IF r.rest[1] = "}"
                                   THEN Parsed(PyDict((k.value :> r.value) @@ acc), Tail(r.rest))
                              ELSE ParseFail))

json_loads_Lenient(s) ==
    With(parse_value(s),
         LAMBDA r : IF r.ok THEN [raised |-> FALSE, value |-> r.value]
                    ELSE [raised |-> FALSE, value |-> PyDict(NoEntries)])

\* json.loads(s): the value, or a JSONDecodeError.
json_loads(s) ==
    With(parse_value(s),
         LAMBDA r : IF r.ok /\ r.rest = <<>> THEN [raised |-> FALSE, value |-> r.value]
                    ELSE [raised |-> TRUE, value |-> None])

\* The part after the last comma.
RECURSIVE after_last_comma(_)
after_last_comma(s) ==
    With(find(s, <<",">>, 0),
         LAMBDA c : IF c = -1 THEN s ELSE after_last_comma(Slice(s, c + 1, Len(s))))

\* base64.b64decode(text): the bytes, kept as the text they are encoded by.
b64decode(chars) == [b64 |-> chars]

GeneratedImage(data, seed, info) == [data |-> data, seed |-> seed, info |-> info]

KeyImages == <<"i", "m", "a", "g", "e", "s">>

KeyInfo == <<"i", "n", "f", "o">>

KeyRaw == <<"r", "a", "w">>

KeyAllSeeds == <<"a", "l", "l", "_", "s", "e", "e", "d", "s">>

ApiRaised == [raised |-> TRUE, images |-> <<>>]

\* The info of the response data as text_to_image normalises it.
normalised_info(data) ==
    LET info == dict_get(data, KeyInfo, None)
        decoded ==
            IF IsStr(info)
            THEN With(json_loads(info.str),
                      LAMBDA r : IF r.raised THEN PyDict(KeyRaw :> info) ELSE r.value)
            ELSE info
    IN  IF ~IsDict(decoded) THEN PyDict(NoEntries) ELSE decoded

\* text_to_image(payload), given the response of the server.
text_to_image(p, response) ==
    IF ~response.ok \/ ~IsDict(response.data) THEN ApiRaised
    ELSE LET data == response.data
             image_list == dict_get(data, KeyImages, PyList(<<>>)).list
             info == normalised_info(data)
             sent_seed == payload_get(p, "seed", PyInt(-1))
             all_seeds == dict_get(info, KeyAllSeeds, None)
             seeds == IF ~IsList(all_seeds)
                      THEN [i \in 1..Max(1, Len(image_list)) |-> sent_seed]
                      ELSE all_seeds.list
         IN  [raised |-> FALSE,
              images |-> [i \in 1..Len(image_list) |->
                            GeneratedImage(b64decode(after_last_comma(image_list[i].str)),
                                           IF i <= Len(seeds) THEN seeds[i] ELSE sent_seed,
                                           info)]]

\* The base_url setter: the stored URL it leaves, and whether it raised.
set_base_url(stored, value) ==
    IF value = <<>> THEN [raised |-> TRUE, base_url |-> stored]
    ELSE [raised |-> FALSE, base_url |-> rstripChar(value, "/")]

SchemeMark == <<":", "/", "/">>

Http == <<"h", "t", "t", "p">> \o SchemeMark

\* MainWindow._normalize_api_url: None or a PyStr.
normalize_api_url(t) ==
    IF t = None \/ t.str = <<>> THEN None
    ELSE LET cleaned == strip(t.str)
         IN  IF cleaned = <<>> THEN None
             ELSE IF find(cleaned, SchemeMark, 0) = -1
                  THEN PyStr(rstripChar(Http \o cleaned, "/"))
                  ELSE PyStr(rstripChar(cleaned, "/"))

Falsy(v) == v = None \/ v = PyStr(<<>>)

DefaultUrl ==
    Http \o <<"1", "2", "7", ".", "0", ".", "0", ".", "1", ":", "7", "8", "6", "0">>

\* URLs given on the command line, typed into the bar or assigned.
ApiUrls == {<<>>, <<" ">>, <<"/">>, <<"a">>, <<"a", "/">>, <<"s">> \o SchemeMark \o <<"b">>}

\* What QSettings holds under api/base_url.
StoredUrls == {None, PyStr(<<"a">>), PyStr(<<"/">>)}

UrlState(client_url, edit_text, settings_url) ==
    [base_url |-> client_url, api_url_edit |-> edit_text, stored_url |-> settings_url]

\* The end of MainWindow.__init__ for a client and the stored setting.
window_init(client_url, settings_url) ==
    LET initial_url == IF Falsy(settings_url) THEN None ELSE normalize_api_url(settings_url)
    IN  IF Falsy(initial_url) THEN UrlState(client_url, client_url, settings_url)
        ELSE With(set_base_url(client_url, initial_url.str),
                  LAMBDA r : IF r.raised THEN UrlState(client_url, client_url, settings_url)
                             ELSE UrlState(r.base_url, initial_url.str, settings_url))

\* MainWindow._on_api_url_applied with the bar holding what was typed.
on_api_url_applied(st, active) ==
    LET normalized == normalize_api_url(PyStr(st.api_url_edit))
        restored == [st EXCEPT !.api_url_edit = st.base_url]
    IN  IF Falsy(normalized) THEN [state |-> restored, outcome |-> "invalid"]
        ELSE IF active THEN [state |-> restored, outcome |-> "busy"]
        ELSE IF normalized.str = st.base_url THEN [state |-> st, outcome |-> "unchanged"]
        ELSE With(set_base_url(st.base_url, normalized.str),
                  LAMBDA r :
                     IF r.raised THEN [state |-> restored, outcome |-> "rejected"]
                     ELSE [state |-> UrlState(r.base_url, normalized.str, normalized),
                           outcome |-> "set"])

\* The responses of the server to txt2img.
InfoTexts ==
    {<<"o", "o", "p", "s">>,
     <<>>,
     <<"{", "}">>,
     <<"{", Quote, "a", Quote, ":", "1", "}">>,
     <<"{", Quote, "a", Quote, ":", "1">>,
     <<"{", Quote>> \o KeyAllSeeds \o <<Quote, ":", "[", "5", ",", "6", "]", "}">>,
     <<"[", "1", "]">>,
     <<"7">>,
     <<Quote, "x", Quote>>,
     <<"n", "u", "l", "l">>}

InfoValues ==
    {PyStr(t) : t \in InfoTexts}
        \cup {None, PyInt(7), PyList(<<PyInt(1)>>), PyDict(NoEntries),
              PyDict(KeyAllSeeds :> PyList(<<PyInt(5)>>)),
              PyDict(KeyRaw :> PyStr(<<"x">>))}

ImageLists ==
    {<<>>,
     <<PyStr(<<"Q", "Q">>)>>,
     <<PyStr(<<"d", ",", "Q", "Q">>), PyStr(<<"Z", "g">>)>>}

ResponseData ==
    {PyDict((KeyImages :> PyList(images)) @@ (KeyInfo :> info)) :
        images \in ImageLists, info \in InfoValues}
        \cup {PyDict(KeyImages :> PyList(images)) : images \in ImageLists}
        \cup {PyDict(NoEntries), PyList(<<>>)}

Responses ==
    {[ok |-> TRUE, data |-> data] : data \in ResponseData}
        \cup {[ok |-> FALSE, data |-> None]}

SentPayloads == {[seed |-> PyInt(3)], [prompt |-> PyStr(<<"p">>)]}

NoApi ==
    [op |-> "none", value |-> <<>>, active |-> FALSE, before |-> <<>>, raised |-> FALSE,
     outcome |-> "none", sent |-> <<>>, response |-> [ok |-> FALSE, data |-> None],
     images |-> <<>>]

ApiStart ==
    /\ \E given \in ApiUrls, settings_url \in StoredUrls :
          /\ ~set_base_url(<<>>, given).raised
          /\ \E st \in {window_init(set_base_url(<<>>, given).base_url, settings_url)} :
                /\ base_url = st.base_url
                /\ api_url_edit = st.api_url_edit
                /\ stored_url = st.stored_url
    /\ lastApi = NoApi

\* client.base_url = value
SetBaseUrl ==
    \E value \in ApiUrls :
        \E r \in {set_base_url(base_url, value)} :
            /\ base_url' = r.base_url
            /\ lastApi' = [NoApi EXCEPT !.op = "assign", !.value = value,
                                        !.before = base_url, !.raised = r.raised]
            /\ UNCHANGED <<api_url_edit, stored_url>>
            /\ UNCHANGED <<selVars, editVars, keyVars, tagVars, payVars, genVars>>

\* The user leaves a text in the URL bar (editingFinished or Apply).
ApplyUrl ==
    \E typed \in ApiUrls, active \in BOOLEAN :
        \E r \in {on_api_url_applied(UrlState(base_url, typed, stored_url), active)} :
            /\ base_url' = r.state.base_url
            /\ api_url_edit' = r.state.api_url_edit
            /\ stored_url' = r.state.stored_url
            /\ lastApi' = [NoApi EXCEPT !.op = "apply", !.value = typed, !.active = active,
                                        !.before = base_url, !.outcome = r.outcome]
            /\ UNCHANGED <<selVars, editVars, keyVars, tagVars, payVars, genVars>>

\* client.text_to_image(payload) with the response of the server.
TextToImage ==
    \E p \in SentPayloads, response \in Responses :
        \E r \in {text_to_image(p, response)} :
            /\ lastApi' = [NoApi EXCEPT !.op = "text_to_image", !.before = base_url,
                                        !.sent = p, !.response = response,
                                        !.raised = r.raised, !.images = r.images]
            /\ UNCHANGED <<base_url, api_url_edit, stored_url>>
            /\ UNCHANGED <<selVars, editVars, keyVars, tagVars, payVars, genVars>>

ApiNext == SetBaseUrl \/ ApplyUrl \/ TextToImage

(***************************************************************************)
(* TextToImageWidget and GenerationWorker (gui/text2image_page.py): the    *)
(* generations of the page.  Generation k has the QThread k and the worker *)
(* k.  The page, the QThread objects and the slot QThread.quit live in the *)
(* interactive thread: a signal emitted in a worker thread reaches them as *)
(* an event posted to the queue of the interactive thread.                 *)
(***************************************************************************)
Gens == 1..MaxGen

NoGen == 0

Page(thread, worker, button, polling, status, dialogs, waiting) ==
    [thread |-> thread,     \* self._thread (NoGen: None)
     worker |-> worker,     \* self._worker
     button |-> button,     \* generate_button.isEnabled()
     polling |-> polling,   \* progress_timer.isActive()
     status |-> status,     \* status_label.text()
     dialogs |-> dialogs,   \* message boxes that are open
     waiting |-> waiting]   \* the thread whose wait() blocks the interactive thread

\* QThread.isRunning(): started, and not yet finishing.
isRunning(ts, k) == ts[k].state \in {"running", "quitting"}

Event(kind, k) == [kind |-> kind, gen |-> k]

on_generate_clicked_Unguarded(p, ts, has_prompt, k) ==
    [page |-> [p EXCEPT !.status = "Generating...", !.thread = k, !.worker = k,
                        !.polling = TRUE],
     started |-> TRUE]

\* _on_generate_clicked; k is the generation it starts, if it starts one.
on_generate_clicked(p, ts, has_prompt, k) ==
    IF p.thread # NoGen /\ isRunning(ts, p.thread)
    THEN [page |-> [p EXCEPT !.dialogs = @ + 1], started |-> FALSE]
    ELSE IF ~has_prompt
    THEN [page |-> [p EXCEPT !.dialogs = @ + 1], started |-> FALSE]
    ELSE [page |-> [p EXCEPT !.button = FALSE, !.status = "Generating...", !.thread = k,
                             !.worker = k, !.polling = TRUE],
          started |-> TRUE]

on_generation_finished(p) ==
    [p EXCEPT !.polling = FALSE, !.button = TRUE, !.status = "Generation finished."]

on_generation_error(p) ==
    [p EXCEPT !.polling = FALSE, !.button = TRUE, !.status = "Generation failed.",
              !.dialogs = @ + 1]

\* _on_thread_finished: the page, the thread it releases, and whether it came
\* to thread.deleteLater().  It has no argument for the thread that emitted.
on_thread_finished(p, ts) ==
    LET thread == p.thread
        cleared == [p EXCEPT !.worker = NoGen, !.thread = NoGen]
    IN  IF thread = NoGen THEN [page |-> cleared, released |-> NoGen, deleteLater |-> FALSE]
        ELSE IF isRunning(ts, thread)
        THEN [page |-> [cleared EXCEPT !.waiting = thread], released |-> thread,
              deleteLater |-> FALSE]
        ELSE [page |-> cleared, released |-> thread, deleteLater |-> TRUE]

\* The request of a generation and the responses of the server to it.
RunRequest == [GenerationRequest EXCEPT !.prompt = PyStr(<<"p">>)]

RunResponses ==
    {[ok |-> TRUE, data |-> PyDict(KeyImages :> PyList(<<PyStr(<<"Q", "Q">>)>>))],
     [ok |-> FALSE, data |-> None]}

\* GenerationWorker.run: the signal it emits.
run(self, response) ==
    IF text_to_image(to_payload(self).returned, response).raised THEN "error" ELSE "finished"

NoStep == [op |-> "none", gen |-> NoGen, started |-> FALSE, released |-> NoGen]

GenStart ==
    /\ page = Page(NoGen, NoGen, TRUE, FALSE, "", 0, NoGen)
    /\ threads = [k \in Gens |-> [state |-> "none", deleteLater |-> FALSE]]
    /\ workers = [k \in Gens |-> [state |-> "none", report |-> "none", handled |-> 0]]
    /\ queue = <<>>
    /\ lastGen = NoStep

Idle == page.waiting = NoGen

OtherVars == <<selVars, editVars, keyVars, tagVars, payVars, apiVars>>

\* A click on the enabled Generate button (a disabled button emits no clicked,
\* an open message box takes the input).
Click ==
    /\ Idle /\ page.dialogs = 0 /\ page.button
    /\ \E k \in Gens, has_prompt \in BOOLEAN :
          /\ threads[k].state = "none"
          /\ \A j \in 1..(k - 1) : threads[j].state # "none"
          /\ \E r \in {on_generate_clicked(page, threads, has_prompt, k)} :
                /\ page' = r.page
                /\ threads' = IF r.started THEN [threads EXCEPT ![k].state = "running"]
                              ELSE threads
                /\ workers' = IF r.started THEN [workers EXCEPT ![k].state = "started"]
                              ELSE workers
                /\ lastGen' = [NoStep EXCEPT !.op = "click", !.started = r.started,
                                             !.gen = IF r.started THEN k ELSE NoGen]
    /\ UNCHANGED queue
    /\ UNCHANGED OtherVars

\* The thread k runs worker.run, which emits finished or error: the slots of
\* the signal are posted to the interactive thread in connection order.
WorkerRun ==
    \E k \in Gens, response \in RunResponses :
        /\ workers[k].state = "started"
        /\ threads[k].state = "running"
        /\ \E signal \in {run(RunRequest, response)} :
              /\ workers' = [workers EXCEPT ![k].state = "reported", ![k].report = signal]
              /\ queue' = queue \o <<Event(signal, k), Event("quit", k)>>
        /\ UNCHANGED <<page, threads, lastGen>>
        /\ UNCHANGED OtherVars

\* The interactive thread delivers the report of a worker.
DeliverReport ==
    /\ Idle /\ queue # <<>> /\ Head(queue).kind \in {"finished", "error"}
    /\ page' = IF Head(queue).kind = "finished" THEN on_generation_finished(page)
               ELSE on_generation_error(page)
    /\ workers' = [workers EXCEPT ![Head(queue).gen].handled = @ + 1]
    /\ queue' = Tail(queue)
    /\ lastGen' = [NoStep EXCEPT !.op = Head(queue).kind, !.gen = Head(queue).gen]
    /\ UNCHANGED threads
    /\ UNCHANGED OtherVars

\* The interactive thread delivers QThread.quit: the event loop of the thread
\* is told to return.
DeliverQuit ==
    /\ Idle /\ queue # <<>> /\ Head(queue).kind = "quit"
    /\ threads' = [threads EXCEPT ![Head(queue).gen].state =
                                      IF @ = "running" THEN "quitting" ELSE @]
    /\ queue' = Tail(queue)
    /\ lastGen' = [NoStep EXCEPT !.op = "quit", !.gen = Head(queue).gen]
    /\ UNCHANGED <<page, workers>>
    /\ UNCHANGED OtherVars

\* The thread k leaves its event loop: it is no longer running and emits
\* finished; a wait() on it returns and the waiting handler goes on to
\* thread.deleteLater().
ThreadExit ==
    \E k \in Gens :
        /\ threads[k].state = "quitting"
        /\ threads' = [threads EXCEPT ![k].state = "finished",
                                      ![k].deleteLater = @ \/ page.waiting = k]
        /\ page' = IF page.waiting = k THEN [page EXCEPT !.waiting = NoGen] ELSE page
        /\ queue' = Append(queue, Event("thread_finished", k))
        /\ UNCHANGED <<workers, lastGen>>
        /\ UNCHANGED OtherVars

\* The interactive thread delivers the finished signal of a thread.
DeliverThreadFinished ==
    /\ Idle /\ queue # <<>> /\ Head(queue).kind = "thread_finished"
    /\ \E r \in {on_thread_finished(page, threads)} :
          /\ page' = r.page
          /\ threads' = IF r.deleteLater THEN [threads EXCEPT ![r.released].deleteLater = TRUE]
                        ELSE threads
          /\ lastGen' = [NoStep EXCEPT !.op = "thread_finished", !.gen = Head(queue).gen,
                                       !.released = r.released]
    /\ queue' = Tail(queue)
    /\ UNCHANGED workers
    /\ UNCHANGED OtherVars

\* The user closes a message box.
CloseDialog ==
    /\ Idle /\ page.dialogs > 0
    /\ page' = [page EXCEPT !.dialogs = @ - 1]
    /\ lastGen' = [NoStep EXCEPT !.op = "close"]
    /\ UNCHANGED <<threads, workers, queue>>
    /\ UNCHANGED OtherVars

\* progress_timer.timeout: _refresh_progress writes the progress to the label.
RefreshProgress ==
    /\ Idle /\ page.polling
    /\ page' = [page EXCEPT !.status = "Progress"]
    /\ lastGen' = [NoStep EXCEPT !.op = "progress"]
    /\ UNCHANGED <<threads, workers, queue>>
    /\ UNCHANGED OtherVars

GenNext ==
    \/ Click
    \/ WorkerRun
    \/ DeliverReport
    \/ DeliverQuit
    \/ ThreadExit
    \/ DeliverThreadFinished
    \/ CloseDialog
    \/ RefreshProgress

(***************************************************************************)
(* Specifications: one per component, the other component at rest.         *)
(***************************************************************************)
SelRest ==
    /\ rows = <<>>
    /\ items = [n \in Names |-> NoItem]
    /\ loading = FALSE
    /\ depth = 0
    /\ emitLog = <<>>
    /\ lastCall = NoCall

EditRest ==
    /\ text = <<>>
    /\ selStart = 0
    /\ selEnd = 0
    /\ lastAdjust = NoAdjust

KeyRest ==
    /\ tags = <<>>
    /\ popupVisible = FALSE
    /\ completion_context = NoContext
    /\ completionPrefix = <<>>
    /\ lastKey = NoKey

TagRest ==
    /\ repo_tags = <<>>
    /\ lastReload = NoReload

PayRest ==
    /\ request = GenerationRequest
    /\ payload = NoPayload
    /\ prior = NoPayload

ApiRest ==
    /\ base_url = DefaultUrl
    /\ api_url_edit = DefaultUrl
    /\ stored_url = None
    /\ lastApi = NoApi

GenRest == GenStart

SelInit == SelRest /\ EditRest /\ KeyRest /\ TagRest /\ PayRest /\ ApiRest /\ GenRest

SelSpec == SelInit /\ [][SelNext]_vars

EditInit == EditStart /\ SelRest /\ KeyRest /\ TagRest /\ PayRest /\ ApiRest /\ GenRest

EditSpec == EditInit /\ [][EditNext]_vars

KeyInit == KeyStart /\ KeyRest /\ SelRest /\ TagRest /\ PayRest /\ ApiRest /\ GenRest

KeySpec == KeyInit /\ [][KeyNext]_vars

TagInit == TagStart /\ SelRest /\ EditRest /\ KeyRest /\ PayRest /\ ApiRest /\ GenRest

TagSpec == TagInit /\ [][TagNext]_vars

PayInit == PayStart /\ SelRest /\ EditRest /\ KeyRest /\ TagRest /\ ApiRest /\ GenRest

PaySpec == PayInit /\ [][PayNext]_vars

ApiInit == ApiStart /\ SelRest /\ EditRest /\ KeyRest /\ TagRest /\ PayRest /\ GenRest

ApiSpec == ApiInit /\ [][ApiNext]_vars

GenInit == GenStart /\ SelRest /\ EditRest /\ KeyRest /\ TagRest /\ PayRest /\ ApiRest

GenSpec == GenInit /\ [][GenNext]_vars

(***************************************************************************)
(* Properties of LoraSelectionList, checked under SelSpec.                 *)
(***************************************************************************)
NamesOf(sel) == {sel[i].name : i \in 1..Len(sel)}

WeightsOf(sel, name) == {sel[i].weight : i \in {j \in 1..Len(sel) : sel[j].name = name}}

\* C1: after any sequence of add_or_update, remove, clear and set_selections
\* calls, also calls made from inside a change-notification handler,
\* selections() never holds two entries with the same name.
C1_UniqueNames ==
    \A i, j \in 1..Len(rows) :
        selections(rows)[i].name = selections(rows)[j].name => i = j

\* A handler has re-added a name that was present, next to another entry.
C1_Witness ==
    /\ lastCall.op = "add_or_update"
    /\ lastCall.present
    /\ lastCall.at > 0
    /\ Len(rows) > 1

\* The step of a call of op made at this depth (a handler's return lowers it).
IsCall(op) == lastCall'.op = op /\ lastCall'.at = depth /\ depth' >= depth

\* C2: add_or_update of a name in the set keeps the sequence of names (same
\* length, same positions) and every other entry's weight; of a name not in
\* the set it appends the entry after all existing ones.
C2_AddKeepsOrder ==
    [][IsCall("add_or_update") =>
        LET before == selections(rows)
            after == selections(rows')
            name == lastCall'.name
        IN  IF name \in NamesOf(before)
            THEN /\ Len(after) = Len(before)
                 /\ \A i \in 1..Len(before) :
                        /\ after[i].name = before[i].name
                        /\ before[i].name # name => after[i].weight = before[i].weight
            ELSE /\ Len(after) = Len(before) + 1
                 /\ SubSeq(after, 1, Len(before)) = before
                 /\ after[Len(after)].name = name]_vars

\* The first of three entries was re-added with another weight and is still first.
C2_Witness ==
    /\ lastCall.op = "add_or_update"
    /\ lastCall.present
    /\ Len(rows) = 3
    /\ rows[1].name = lastCall.name
    /\ rows[1].weight # rows[2].weight

\* C3 as stated: after add_or_update(reference, w) with w >= 0, selections()
\* reports exactly w for that reference.
C3_Original ==
    (lastCall.op = "add_or_update" /\ lastCall.weight >= 0) =>
        WeightsOf(selections(rows), lastCall.name) = {lastCall.weight}

\* C3, amended: selections() reports w rounded to the spin box's two decimals
\* and limited to its maximum 2.0, so exactly w when w <= 2.0 has at most two
\* decimals.
C3_SpinWeight ==
    (lastCall.op = "add_or_update" /\ lastCall.weight >= 0) =>
        /\ Cardinality(WeightsOf(selections(rows), lastCall.name)) = 1
        /\ \A v \in WeightsOf(selections(rows), lastCall.name) :
            /\ v >= SpinMin
            /\ v % SpinStep = 0
            /\ v <= SpinMax
            /\ lastCall.weight > SpinMax => v = SpinMax
            /\ lastCall.weight <= SpinMax =>
                   2 * (v - lastCall.weight) \in (0 - SpinStep)..SpinStep

\* An entry that was present was given a weight above the spin box's range.
C3_Witness ==
    /\ lastCall.op = "add_or_update"
    /\ lastCall.present
    /\ lastCall.weight > SpinMax
    /\ WeightsOf(selections(rows), lastCall.name) = {SpinMax}

\* C4: set_selections, given any sequence (empty, or with repeated names),
\* emits exactly one change notification, and the handlers then see the set
\* completely cleared and re-populated: one entry per name of the sequence.
C4_BulkNotifiesOnce ==
    lastCall.op = "set_selections" =>
        /\ Len(emitLog) = 1
        /\ emitLog[1] = selections(rows)
        /\ NamesOf(emitLog[1]) = NamesOf(lastCall.sel)
        /\ Len(emitLog[1]) = Cardinality(NamesOf(lastCall.sel))
        /\ ~loading

\* A sequence that repeats a name has replaced a set that was not empty.
C4_Witness ==
    /\ lastCall.op = "set_selections"
    /\ ~lastCall.empty
    /\ Len(lastCall.sel) > Len(rows)
    /\ Len(rows) > 0

\* C5: remove of a name not in the set changes nothing and emits nothing; of a
\* name in the set it takes out exactly that entry, keeps the order and the
\* weights of the others, and emits one notification.
C5_RemoveFrame ==
    [][IsCall("remove") =>
        LET before == selections(rows)
            after == selections(rows')
            name == lastCall'.name
        IN  IF name \in NamesOf(before)
            THEN /\ after = SelectSeq(before, LAMBDA e : e.name # name)
                 /\ Len(after) = Len(before) - 1
                 /\ Len(emitLog') = 1
            ELSE /\ after = before
                 /\ items' = items
                 /\ emitLog' = <<>>
                 /\ depth' = depth]_vars

\* The middle one of three entries was removed.
C5_Witness ==
    /\ lastCall.op = "remove"
    /\ lastCall.present
    /\ Len(rows) = 2
    /\ Len(emitLog) = 1
    /\ lastCall.name = "B"
    /\ rows[1].name = "A"
    /\ rows[2].name = "C"

\* C6: clear() leaves the set empty and emits exactly one change notification
\* on every call, also when the set was empty before the call.
C6_ClearEmits ==
    lastCall.op = "clear" =>
        /\ selections(rows) = <<>>
        /\ \A n \in Names : items[n] = NoItem
        /\ Len(emitLog) = 1

\* clear() was called on an empty set and its handler is running.
C6_Witness ==
    /\ lastCall.op = "clear"
    /\ lastCall.empty
    /\ Len(emitLog) = 1
    /\ depth = lastCall.at + 1

(***************************************************************************)
(* Properties of _adjust_selected_tag_weight, checked under EditSpec.  The *)
(* state is the one the last call left; lastAdjust holds what it was given.*)
(***************************************************************************)
GivenText == lastAdjust.text

GivenSelection == Slice(lastAdjust.text, lastAdjust.selStart, lastAdjust.selEnd)

\* Offsets of the first character of the selection that is not a blank, and
\* of the end of the last one.
GivenCoreStart == lastAdjust.selStart + (Len(GivenSelection) - Len(lstrip(GivenSelection)))

GivenCoreEnd == lastAdjust.selEnd - (Len(GivenSelection) - Len(rstrip(GivenSelection)))

Applied == lastAdjust.called /\ lastAdjust.result.handled

NoOp ==
    /\ ~lastAdjust.result.handled
    /\ text = lastAdjust.text
    /\ selStart = lastAdjust.selStart
    /\ selEnd = lastAdjust.selEnd

\* What the call wrote: the text now between the start of the replaced span
\* and the unchanged rest of the given text.
WrittenStart == lastAdjust.result.core_start

WrittenEnd == Len(text) - (Len(GivenText) - lastAdjust.result.core_end)

Written == Slice(text, WrittenStart, WrittenEnd)

LastColon(w) == CHOOSE i \in 1..Len(w) : w[i] = ":" /\ \A j \in (i + 1)..Len(w) : w[j] # ":"

\* The weight written: what stands between the last colon and the final ")".
WrittenWeight == SubSeq(Written, LastColon(Written) + 1, Len(Written) - 1)

WrittenTag == SubSeq(Written, 2, LastColon(Written) - 1)

WeightedForm(s) == TAG_WEIGHT_PATTERN(s).ok \/ SIMPLE_TAG_WEIGHT_PATTERN(s).ok

ParenBefore == GivenCoreStart > 0 /\ GivenText[GivenCoreStart] = "("

NoParenAfter == find(GivenText, <<")">>, lastAdjust.selEnd) = -1

\* C7: the weight written by an adjustment is never below 0, whatever the
\* weight in the text (also a negative one) and the delta: a sum below 0 is
\* written as 0.
C7_NeverNegative ==
    Applied =>
        /\ ":" \in Range(Written)
        /\ IsWeightLiteral(WrittenWeight)
        /\ WrittenWeight[1] # "-"
        /\ Decimal(WrittenWeight).m >= 0
        /\ DecLess(DecAdd(lastAdjust.result.weight, lastAdjust.delta), Zero) =>
               WrittenWeight = <<"0", ".", "0">>

\* A negative weight written in the text was lowered: 0.0 is written.
C7_Witness ==
    /\ Applied
    /\ lastAdjust.result.weight.m < 0
    /\ "-" \in Range(GivenText)
    /\ lastAdjust.delta = HalfDown
    /\ WrittenWeight = <<"0", ".", "0">>

\* C8 as stated: the call is a no-op when the selection is empty or blank,
\* holds a line break, holds a comma and matches neither weighted form, or is
\* immediately preceded by "(" with no ")" at or after its end.
C8_Original ==
    (/\ lastAdjust.called
     /\ \/ strip(GivenSelection) = <<>>
        \/ "\n" \in Range(GivenSelection)
        \/ "," \in Range(GivenSelection) /\ ~WeightedForm(strip(GivenSelection))
        \/ /\ lastAdjust.selStart > 0
           /\ GivenText[lastAdjust.selStart] = "("
           /\ NoParenAfter)
    => NoOp

\* C8, amended: the last two cases only for a selection that matches neither
\* weighted form, the comma case only when the first character of the
\* selection that is not a blank does not follow a "(", and the open
\* parenthesis case when that character follows a "(".
C8_NoOp ==
    (/\ lastAdjust.called
     /\ \/ strip(GivenSelection) = <<>>
        \/ "\n" \in Range(GivenSelection)
        \/ /\ ~WeightedForm(strip(GivenSelection))
           /\ \/ "," \in Range(GivenSelection) /\ ~ParenBefore
              \/ ParenBefore /\ NoParenAfter)
    => NoOp

\* A tag selected right after a "(" that nothing closes was left alone.
C8_Witness ==
    /\ lastAdjust.called
    /\ strip(GivenSelection) # <<>>
    /\ "\n" \notin Range(GivenSelection)
    /\ "," \notin Range(GivenSelection)
    /\ ~WeightedForm(strip(GivenSelection))
    /\ ParenBefore
    /\ NoParenAfter
    /\ NoOp

\* C9: on the trimmed selection the parenthesized form is tried first, then
\* the bare form tag:weight, then (only after a "(") the enclosing
\* parentheses, and only otherwise the bare tag.  A selection of the form
\* tag:weight is rewritten as such also directly inside "(" ... ")".
C9_Priority ==
    (/\ lastAdjust.called
     /\ strip(GivenSelection) # <<>>
     /\ "\n" \notin Range(GivenSelection))
    => LET trimmed == strip(GivenSelection)
           r == lastAdjust.result
           own == r.core_start = GivenCoreStart /\ r.core_end = GivenCoreEnd
       IN  IF TAG_WEIGHT_PATTERN(trimmed).ok
           THEN /\ r.handled /\ own
                /\ r.tag = strip(TAG_WEIGHT_PATTERN(trimmed).tag)
                /\ r.weight = Decimal(TAG_WEIGHT_PATTERN(trimmed).weight)
           ELSE IF SIMPLE_TAG_WEIGHT_PATTERN(trimmed).ok
           THEN /\ r.handled /\ own
                /\ r.tag = strip(SIMPLE_TAG_WEIGHT_PATTERN(trimmed).tag)
                /\ r.weight = Decimal(SIMPLE_TAG_WEIGHT_PATTERN(trimmed).weight)
           ELSE IF ParenBefore
           THEN r.handled =>
                    /\ r.core_start = GivenCoreStart - 1
                    /\ r.core_end > GivenCoreEnd
                    /\ GivenText[r.core_end] = ")"
           ELSE r.handled => (own /\ r.tag = trimmed /\ r.weight = ImplicitWeight)

\* A selection tag:weight directly inside "(" ... ")" was rewritten in place.
C9_Witness ==
    /\ Applied
    /\ SIMPLE_TAG_WEIGHT_PATTERN(strip(GivenSelection)).ok
    /\ ParenBefore
    /\ ~NoParenAfter
    /\ GivenText[GivenCoreEnd + 1] = ")"
    /\ text[WrittenStart] = "("
    /\ text[WrittenStart + 1] = "("

\* C10: an adjustment writes "(" + tag + ":" + formatted weight + ")", also
\* for a tag selected without parentheses (weight 1.0), over exactly the
\* matched token, and changes no character outside it, blanks of the
\* selection included.
C10_Rewrite ==
    Applied =>
        LET r == lastAdjust.result
        IN  /\ Len(Written) >= 4
            /\ Written[1] = "(" /\ Written[Len(Written)] = ")"
            /\ ":" \in Range(Written)
            /\ WrittenTag = r.tag
            /\ WrittenWeight = format_weight(clamp(DecAdd(r.weight, lastAdjust.delta)))
            /\ Slice(text, 0, WrittenStart) = Slice(GivenText, 0, r.core_start)
            /\ Slice(text, WrittenEnd, Len(text)) = Slice(GivenText, r.core_end, Len(GivenText))
            /\ selStart = WrittenStart /\ selEnd = WrittenEnd
            /\ IF WeightedForm(strip(GivenSelection)) \/ ~ParenBefore
               THEN /\ r.core_start = GivenCoreStart
                    /\ r.core_end = GivenCoreEnd
                    /\ Slice(GivenText, r.core_start, r.core_end) = strip(GivenSelection)
               ELSE /\ r.core_start = GivenCoreStart - 1
                    /\ GivenText[r.core_end] = ")"
            /\ (~WeightedForm(strip(GivenSelection)) /\ ~ParenBefore) =>
                   /\ WrittenTag = strip(GivenSelection)
                   /\ lastAdjust.delta = HalfUp => WrittenWeight = <<"1", ".", "5">>

\* The tag "a", selected with a blank on either side, became "(a:1.5)"
\* between the two blanks.
C10_Witness ==
    /\ Applied
    /\ GivenText = <<" ", "a", " ">>
    /\ GivenSelection = GivenText
    /\ text = <<" ", "(", "a", ":", "1", ".", "5", ")", " ">>

\* Offset of the ")" that closes, by balanced pairing, the "(" at offset open
\* of t; -1 when nothing closes it.
RECURSIVE ScanParen(_, _, _)
ScanParen(t, i, level) ==
    IF i >= Len(t) THEN -1
    ELSE IF t[i + 1] = "(" THEN ScanParen(t, i + 1, level + 1)
    ELSE IF t[i + 1] = ")"
    THEN IF level = 1 THEN i ELSE ScanParen(t, i + 1, level - 1)
    ELSE ScanParen(t, i + 1, level)

MatchingParen(t, open) == ScanParen(t, open + 1, 1)

ViaEnclosing == Applied /\ lastAdjust.result.grammar = "enclosing"

\* C11 as stated: in the enclosing-parenthesis fallback the replaced span
\* starts at the "(" immediately before the selection, ends at the ")" that
\* balances that "(", and holds no line break.
C11_Original ==
    ViaEnclosing =>
        LET r == lastAdjust.result
        IN  /\ r.core_start = GivenCoreStart - 1
            /\ GivenText[r.core_start + 1] = "("
            /\ r.core_end - 1 = MatchingParen(GivenText, r.core_start)
            /\ "\n" \notin Range(Slice(GivenText, r.core_start, r.core_end))

IsHalfMultiple(d) == (2 * d.m) % Pow10(d.e) = 0

DecEq(a, b) == ~DecLess(a, b) /\ ~DecLess(b, a)

\* C12 as stated: a token whose weight is a multiple of 0.5 and at least 0
\* was raised by 0.5; lowering the resulting token by 0.5 gives a token with
\* the tag and the weight of the original, at the same place of the buffer.
C12_Original ==
    [][(/\ Applied
        /\ lastAdjust.delta = HalfUp
        /\ IsHalfMultiple(lastAdjust.result.weight)
        /\ ~DecLess(lastAdjust.result.weight, Zero)
        /\ lastAdjust'.delta = HalfDown)
       => /\ lastAdjust'.result.handled
          /\ lastAdjust'.result.tag = lastAdjust.result.tag
          /\ DecEq(lastAdjust'.result.new_weight, lastAdjust.result.weight)
          /\ lastAdjust'.result.core_start = lastAdjust.result.core_start
          /\ text' = Slice(GivenText, 0, lastAdjust.result.core_start)
                        \o replacement(lastAdjust.result.tag,
                                       format_weight(lastAdjust.result.weight))
                        \o Slice(GivenText, lastAdjust.result.core_end, Len(GivenText))]_vars

\* C13 as stated: after a successful adjust the selection covers exactly the
\* written token, and a further adjust on it matches the parenthesized form
\* with the same tag and overwrites exactly that token, so that only the
\* weight changes, by the clamped sum of the deltas.
C13_Original ==
    [][(Applied /\ lastAdjust'.called /\ lastAdjust' # lastAdjust)
       => /\ selStart = WrittenStart /\ selEnd = WrittenEnd
          /\ Written = lastAdjust.result.replacement
          /\ lastAdjust'.result.handled
          /\ lastAdjust'.result.grammar = "paren"
          /\ lastAdjust'.result.tag = lastAdjust.result.tag
          /\ DecEq(lastAdjust'.result.weight, lastAdjust.result.new_weight)
          /\ lastAdjust'.result.core_start = selStart
          /\ lastAdjust'.result.core_end = selEnd
          /\ text' = Slice(text, 0, selStart)
                        \o replacement(lastAdjust.result.tag,
                               format_weight(clamp(DecAdd(lastAdjust.result.new_weight,
                                                          lastAdjust'.delta))))
                        \o Slice(text, selEnd, Len(text))]_vars

\* C14: the new weight is written with exactly one decimal place when it is
\* integral (0 as "0.0", 2 as "2.0"), and otherwise as the shortest decimal:
\* no trailing zero, no trailing point (1.3 + 0.5 as "1.8", 1.25 + 0.5 as
\* "1.75").
C14_Format ==
    Applied =>
        LET w == WrittenWeight
            v == normalize(clamp(DecAdd(lastAdjust.result.weight, lastAdjust.delta)))
        IN  /\ IsWeightLiteral(w)
            /\ "." \in Range(w)
            /\ DecEq(Decimal(w), v)
            /\ (Len(w) > 1 /\ w[1] = "0") => w[2] = "."
            /\ v.e = 0 => w = NatChars(v.m) \o <<".", "0">>
            /\ v.e > 0 => (w[Len(w)] # "0" /\ Decimal(w).e = v.e)
            /\ (v = Dec(0, 0)) => w = <<"0", ".", "0">>
            /\ (v = Dec(2, 0)) => w = <<"2", ".", "0">>
            /\ (v = Dec(18, 1)) => w = <<"1", ".", "8">>
            /\ (v = Dec(175, 2)) => w = <<"1", ".", "7", "5">>

\* The weight 1.30 of the text was raised by 0.5 and written as "1.8".
C14_Witness ==
    /\ Applied
    /\ lastAdjust.result.weight = Dec(130, 2)
    /\ lastAdjust.delta = HalfUp
    /\ WrittenWeight = <<"1", ".", "8">>

(***************************************************************************)
(* Properties of the key handling and the completion popup, checked under  *)
(* KeySpec.  The state is the one the last key event left.                 *)
(***************************************************************************)
Did == lastKey.did

\* The key event reached _show_completions.
Update == lastKey.op = "key" /\ Did.update

Forced == lastKey.mod = ControlModifier /\ lastKey.key = Key_Space

\* Offset after the last comma, CR or LF before the cursor (0 when none).
LastSeparator ==
    LET seps == {i \in 1..selEnd : text[i] \in Separators}
    IN  IF seps = {} THEN 0 ELSE CHOOSE i \in seps : \A j \in seps : j <= i

Blank(s) == \A i \in 1..Len(s) : IsSpace(s[i])

\* C15: resolve returns none exactly when the buffer is empty, the cursor is
\* at offset 0, or the text between the last comma, CR or LF before the cursor
\* and the cursor is empty or blank; otherwise (replace_start, prefix) with
\* prefix = buffer[replace_start:cursor], not empty, without leading blank and
\* without comma, CR or LF, and replace_start + length(prefix) = cursor.
C15_Resolve ==
    (lastKey.op = "key" /\ Did.resolved) =>
        LET found == Did.context
        IN  /\ ~found.some <=>
                   (text = <<>> \/ selEnd = 0 \/ Blank(Slice(text, LastSeparator, selEnd)))
            /\ found.some =>
                   /\ found.prefix = Slice(text, found.start, selEnd)
                   /\ found.prefix # <<>>
                   /\ ~IsSpace(found.prefix[1])
                   /\ Range(found.prefix) \cap Separators = {}
                   /\ found.start + Len(found.prefix) = selEnd
                   /\ found.start >= LastSeparator
                   /\ Blank(Slice(text, LastSeparator, found.start))

\* A prefix was resolved that starts after a comma and a blank.
C15_Witness ==
    /\ lastKey.op = "key"
    /\ Did.resolved
    /\ Did.context.some
    /\ Did.context.start > 1
    /\ text[Did.context.start] = " "
    /\ text[Did.context.start - 1] = ","

\* What resolve gives for the buffer and the cursor the key event left.
Found == current_completion_context(text, selEnd)

LongEnough == Found.some /\ Len(Found.prefix) >= minimum_completion_length

C17_Dispatch ==
    [][lastKey'.op = "key" =>
        LET k == lastKey'
            attempt == k.mod = NoModifier /\ k.key \in {Key_Up, Key_Down}
            r == adjust_selected_tag_weight(text, selStart, selEnd,
                     IF k.key = Key_Up THEN HalfUp ELSE HalfDown)
        IN  /\ (k.did.adjust # "none") <=> attempt
            /\ attempt => ((k.did.adjust = "applied") <=> r.handled)
            /\ k.did.adjust = "applied" =>
                   /\ text' = r.text /\ selStart' = r.selStart /\ selEnd' = r.selEnd
                   /\ k.did.accepted = "accept"
                   /\ ~k.did.passed /\ ~k.did.update /\ k.did.popup = "none"
                   /\ UNCHANGED <<popupVisible, completion_context, completionPrefix>>
            /\ k.did.adjust = "refused" =>
                   /\ k.did.passed /\ k.did.update
                   /\ text' = text
            /\ k.did.adjust = "none" =>
                   \/ text' = text
                   \/ /\ k.mod = NoModifier /\ k.key \in DOMAIN KeyText /\ k.did.passed
                      /\ text' = Slice(text, 0, selStart) \o <<KeyText[k.key]>>
                                     \o Slice(text, selEnd, Len(text))]_vars

\* The Up key raised the selected tag while the popup was visible: the popup
\* is as it was.
C17_Witness ==
    /\ lastKey.op = "key"
    /\ lastKey.key = Key_Up
    /\ Did.adjust = "applied"
    /\ lastKey.was
    /\ popupVisible
    /\ ~Did.update

(***************************************************************************)
(* Properties of TagRepository.reload, checked under TagSpec.              *)
(***************************************************************************)
\* The tags the files of the last reload yield, in the order of the scan.
RECURSIVE Contributed(_)
Contributed(files) ==
    IF files = <<>> THEN <<>>
    ELSE load_file(Head(files)).tags \o Contributed(Tail(files))

Scan == Contributed(scanned(lastReload.dirs))

SameIdentity(a, b) == lower(strip(a)) = lower(strip(b))

\* C18: after every successful reload, whatever the directories hold, tags()
\* is sorted by the lowered entries, has no two entries equal ignoring case,
\* holds only stripped, non-empty strings, one for every identity the files
\* contribute, in the casing of its first occurrence in the scan.
C18_Snapshot ==
    (lastReload.called /\ ~lastReload.raised) =>
        /\ \A i, j \in 1..Len(repo_tags) :
               i < j => StrLess(lower(repo_tags[i]), lower(repo_tags[j]))
        /\ \A i \in 1..Len(repo_tags) :
               /\ repo_tags[i] # <<>>
               /\ ~IsSpace(repo_tags[i][1])
               /\ ~IsSpace(repo_tags[i][Len(repo_tags[i])])
               /\ \E k \in 1..Len(Scan) :
                      /\ repo_tags[i] = strip(Scan[k])
                      /\ \A m \in 1..(k - 1) : ~SameIdentity(Scan[m], Scan[k])
        /\ \A k \in 1..Len(Scan) :
               strip(Scan[k]) # <<>> =>
                   \E i \in 1..Len(repo_tags) : SameIdentity(repo_tags[i], Scan[k])

\* One file gave "Cat" and the next one "cat, 500": the single entry "Cat",
\* after "b".
C18_Witness ==
    /\ lastReload.called
    /\ ~lastReload.raised
    /\ lastReload.dirs = <<Dir({FileCat, FileCatCount})>>
    /\ repo_tags = << <<"b">>, <<"C", "a", "t">> >>

\* C19 as stated: a file that cannot be read or parsed does not abort the
\* reload; it contributes no tag, and the tags of every other file, also of
\* those scanned after it, are in tags() when reload returns.
C19_Original ==
    lastReload.called =>
        /\ ~lastReload.raised
        /\ \A f \in Range(scanned(lastReload.dirs)) :
               ~load_file(f).raised =>
                   \A t \in Range(load_file(f).tags) :
                       strip(t) # <<>> =>
                           \E i \in 1..Len(repo_tags) : SameIdentity(repo_tags[i], t)

(***************************************************************************)
(* Properties of GenerationRequest.to_payload (PaySpec).                   *)
(***************************************************************************)
Built == payload # NoPayload

StringFields == {"scheduler", "checkpoint", "vae", "text_encoder"}

OptionalFields == StringFields \cup {"subseed", "clip_skip", "gpu_weights_mb"}

TopLevelFields == {"scheduler", "subseed"}

FixedKey(f) ==
    CASE f = "scheduler" -> "scheduler"
      [] f = "subseed" -> "subseed"
      [] f = "clip_skip" -> "CLIP_stop_at_last_layers"
      [] f = "checkpoint" -> "sd_model_checkpoint"
      [] f = "vae" -> "sd_vae"
      [] f = "text_encoder" -> "sd_text_encoder"
      [] f = "gpu_weights_mb" -> "gpu_weights_limit_mb"

\* The override_settings sub-object of the payload ({} when there is none).
Overrides ==
    IF "override_settings" \in DOMAIN payload THEN payload["override_settings"] ELSE EmptyDict

NothingSupplied ==
    /\ \A f \in OptionalFields : request[f] = None
    /\ request.additional_options = EmptyDict

\* The field is supplied: non-null, and for a string field non-empty.
Supplied(f) ==
    /\ request[f] # None
    /\ f \in StringFields => request[f] # PyStr(<<>>)

\* C20 as stated: override_settings holds the fixed key of each optional
\* field exactly when the field is non-null, with its value; it holds none of
\* them when nothing is supplied; no key has a null value.
C20_Original ==
    Built =>
        /\ \A f \in OptionalFields :
              /\ FixedKey(f) \in DOMAIN Overrides <=> request[f] # None
              /\ request[f] # None => Overrides[FixedKey(f)] = request[f]
        /\ NothingSupplied => \A f \in OptionalFields : FixedKey(f) \notin DOMAIN Overrides
        /\ \A k \in DOMAIN payload : payload[k] # None
        /\ \A k \in DOMAIN Overrides : Overrides[k] # None

\* C20: scheduler and subseed are written at the top level of the payload and
\* the other optional fields in override_settings, each exactly when it is
\* supplied (non-null, and non-empty for a string field) and with its value
\* unless the override map holds the same key; override_settings is always
\* present and has no key besides these and those of the override map, so it
\* is empty when nothing is supplied; the only null values are those of the
\* override map.
C20_Override ==
    Built =>
        /\ "override_settings" \in DOMAIN payload
        /\ \A f \in TopLevelFields :
              /\ FixedKey(f) \in DOMAIN payload <=> Supplied(f)
              /\ Supplied(f) => payload[FixedKey(f)] = request[f]
        /\ DOMAIN Overrides =
              {FixedKey(f) : f \in {g \in OptionalFields \ TopLevelFields : Supplied(g)}}
                  \cup DOMAIN request.additional_options
        /\ \A f \in OptionalFields \ TopLevelFields :
              Supplied(f) /\ FixedKey(f) \notin DOMAIN request.additional_options
                  => Overrides[FixedKey(f)] = request[f]
        /\ NothingSupplied => Overrides = EmptyDict
        /\ \A k \in DOMAIN payload : payload[k] # None
        /\ \A k \in DOMAIN Overrides :
              Overrides[k] = None =>
                  k \in DOMAIN request.additional_options /\ request.additional_options[k] = None

\* A payload of a request with a scheduler, a subseed, a clip_skip of 0 and an
\* empty checkpoint name, and neither vae nor override map.
C20_Witness ==
    /\ Built
    /\ request.scheduler = PyStr(<<"k">>)
    /\ request.subseed = PyInt(0)
    /\ request.clip_skip = PyInt(0)
    /\ request.checkpoint = PyStr(<<>>)
    /\ request.vae = None
    /\ request.additional_options = EmptyDict
    /\ payload["scheduler"] = PyStr(<<"k">>)
    /\ DOMAIN Overrides = {"CLIP_stop_at_last_layers"}

Chars(d) == rstripChar(rstripChar(FixedPoint(normalize(d)), "0"), ".")

\* <lora:{alias or name}:{weight}> with the weight rendered by Rendering.
Tag(selection, Rendering(_)) ==
    <<"<", "l", "o", "r", "a", ":">>
        \o (IF selection.alias \notin {None, PyStr(<<>>)} THEN selection.alias.str
            ELSE selection.name.str)
        \o <<":">> \o Rendering(selection.weight.float) \o <<">">>

RECURSIVE Spaced(_)
Spaced(parts) ==
    IF parts = <<>> THEN <<>>
    ELSE IF Len(parts) = 1 THEN parts[1]
    ELSE parts[1] \o <<" ">> \o Spaced(Tail(parts))

SpaceJoined(sels, Rendering(_)) == Spaced([i \in 1..Len(sels) |-> Tag(sels[i], Rendering)])

\* The weight to two decimal places, trailing zeros and a trailing point dropped.
TwoPlaces(d) == rstripChar(rstripChar(Fixed2(d), "0"), ".")

Pairs == [i \in 1..Len(request.loras) |-> <<request.loras[i].name, request.loras[i].weight>>]

ScriptsAsStated ==
    IF request.loras # <<>>
    THEN /\ "alwayson_scripts" \in DOMAIN payload
         /\ payload["alwayson_scripts"] = [LoRA |-> [args |-> Pairs]]
    ELSE /\ "alwayson_scripts" \notin DOMAIN payload
         /\ payload["prompt"] = request.prompt

\* C21 as stated: with selections the payload prompt is the prompt text
\* followed by the space-joined tags, the weight written without trailing
\* zeros, and alwayson_scripts holds the [name, weight] pairs in order;
\* without selections the prompt is the prompt text and there is no
\* alwayson_scripts entry.
C21_Original ==
    Built =>
        /\ request.loras # <<>> =>
              payload["prompt"] = PyStr(request.prompt.str \o SpaceJoined(request.loras, Chars))
        /\ ScriptsAsStated

\* C21: with selections the payload prompt is the space-joined tags
\* <lora:{alias or name}:{weight}>, in selection order, each weight rounded to
\* two decimal places with trailing zeros dropped, preceded by the prompt
\* text and one line break when the prompt text is non-empty; the LoRA entry
\* of alwayson_scripts holds the [name, weight] pairs in the same order;
\* without selections the prompt is the prompt text and the payload has no
\* alwayson_scripts entry.
C21_Prompt ==
    Built =>
        /\ request.loras # <<>> =>
              payload["prompt"] =
                  PyStr((IF request.prompt.str = <<>> THEN <<>>
                         ELSE request.prompt.str \o <<"\n">>)
                        \o SpaceJoined(request.loras, TwoPlaces))
        /\ ScriptsAsStated

\* The payload of the prompt "p" with the selections A (weight 1.0) and B
\* (alias b, weight 0.125).
C21_Witness ==
    /\ Built
    /\ request.prompt = PyStr(<<"p">>)
    /\ Len(request.loras) = 2
    /\ request.loras[1].name = PyStr(<<"A">>)
    /\ request.loras[2].name = PyStr(<<"B">>)
    /\ payload["prompt"] =
          PyStr(<<"p", "\n", "<", "l", "o", "r", "a", ":", "A", ":", "1", ">", " ",
                  "<", "l", "o", "r", "a", ":", "b", ":", "0", ".", "1", "2", ">">>)
    /\ payload["alwayson_scripts"]["LoRA"]["args"] =
          << <<PyStr(<<"A">>), PyFloat(Dec(10, 1))>>, <<PyStr(<<"B">>), PyFloat(Dec(125, 3))>> >>

\* C22: the override map is merged last: override_settings holds the map's
\* value for every key of the map, also for a key that an individually mapped
\* field wrote, and the individually mapped value for the other keys.
C22_MergedLast ==
    Built =>
        /\ \A k \in DOMAIN request.additional_options :
              /\ k \in DOMAIN Overrides
              /\ Overrides[k] = request.additional_options[k]
        /\ \A f \in OptionalFields \ TopLevelFields :
              FixedKey(f) \in DOMAIN Overrides \ DOMAIN request.additional_options
                  => Overrides[FixedKey(f)] = request[f]

\* The vae "v" and the text encoder "t" with the override map {sd_vae: "o"}:
\* sd_vae is the map's, sd_text_encoder the field's.
C22_Witness ==
    /\ Built
    /\ request.vae = PyStr(<<"v">>)
    /\ request.text_encoder = PyStr(<<"t">>)
    /\ request.additional_options = [sd_vae |-> PyStr(<<"o">>)]
    /\ Overrides["sd_vae"] = PyStr(<<"o">>)
    /\ Overrides["sd_text_encoder"] = PyStr(<<"t">>)

Returned == lastApi.op = "text_to_image" /\ ~lastApi.raised

\* The info of the response as the server sent it (None when absent).
InfoSent == dict_get(lastApi.response.data, KeyInfo, None)

\* The text is a JSON document of the grammar of the model.
ValidJson(t) == With(parse_value(t), LAMBDA r : r.ok /\ r.rest = <<>>)

Decoded(t) == parse_value(t).value

RawOf(v) == PyDict(KeyRaw :> v)

\* C24 as stated: the metadata is a map; an object is used as is, a string of
\* valid JSON is replaced by its decoded value, a string that is not valid
\* JSON gives {"raw": string}, and no other input gives the raw fallback.
C24_Original ==
    Returned =>
        \A i \in 1..Len(lastApi.images) :
            LET out == lastApi.images[i].info
            IN  /\ IsDict(out)
                /\ IsDict(InfoSent) => out = InfoSent
                /\ IsStr(InfoSent) /\ ValidJson(InfoSent.str) => out = Decoded(InfoSent.str)
                /\ IsStr(InfoSent) /\ ~ValidJson(InfoSent.str) => out = RawOf(InfoSent)
                /\ ~(IsStr(InfoSent) /\ ~ValidJson(InfoSent.str)) => out # RawOf(InfoSent)

\* C24: the metadata of every returned image is a map: an object is used as
\* is; a string of valid JSON is replaced by its decoded value when that is an
\* object and by the empty map when it is not; a string that is not valid JSON
\* gives {"raw": string}; anything else (absent, null, a list, a number) gives
\* the empty map; no other input gives the raw fallback.
C24_Normalised ==
    Returned =>
        \A i \in 1..Len(lastApi.images) :
            LET out == lastApi.images[i].info
            IN  /\ IsDict(out)
                /\ IsDict(InfoSent) => out = InfoSent
                /\ IsStr(InfoSent) /\ ValidJson(InfoSent.str) =>
                      out = IF IsDict(Decoded(InfoSent.str)) THEN Decoded(InfoSent.str)
                            ELSE PyDict(NoEntries)
                /\ IsStr(InfoSent) /\ ~ValidJson(InfoSent.str) => out = RawOf(InfoSent)
                /\ ~IsStr(InfoSent) /\ ~IsDict(InfoSent) => out = PyDict(NoEntries)
                /\ ~(IsStr(InfoSent) /\ ~ValidJson(InfoSent.str)) => out # RawOf(InfoSent)

\* The response with the info 'oops' and one image.
C24_Witness ==
    /\ Returned
    /\ InfoSent = PyStr(<<"o", "o", "p", "s">>)
    /\ Len(lastApi.images) = 1
    /\ lastApi.images[1].info = PyDict(KeyRaw :> PyStr(<<"o", "o", "p", "s">>))

\* The response whose info is the text of an object with two seeds.
C24_WitnessDecoded ==
    /\ Returned
    /\ InfoSent = PyStr(<<"{", Quote>> \o KeyAllSeeds \o <<Quote, ":", "[", "5", ",", "6", "]", "}">>)
    /\ Len(lastApi.images) = 2
    /\ lastApi.images[2].info = PyDict(KeyAllSeeds :> PyList(<<PyInt(5), PyInt(6)>>))
    /\ lastApi.images[2].seed = PyInt(6)

\* C25 as stated: the stored base URL is never empty, and an assignment of
\* the empty URL raises and leaves the stored URL as it was.
C25_Original ==
    /\ base_url # <<>>
    /\ lastApi.op = "assign" /\ lastApi.value = <<>> =>
          lastApi.raised /\ base_url = lastApi.before

(***************************************************************************)
(* Properties of the generations of the page (GenSpec)                     *)
(***************************************************************************)
\* The workers that were started and have not yet emitted their report.
InFlight == {k \in Gens : workers[k].state = "started"}

\* The generations that were started and whose report no handler has run for.
Unreported == {k \in Gens : workers[k].state # "none" /\ workers[k].handled = 0}

\* C26: at most one generation request is in flight at any time: whatever the
\* order of clicks, reports and thread-finished events, no worker is started
\* while another has not yet reported, and after a click that starts a worker
\* no other worker is in flight.
C26_OneInFlight ==
    /\ Cardinality(InFlight) <= 1
    /\ lastGen.op = "click" /\ lastGen.started => InFlight \subseteq {lastGen.gen}

\* A second generation is in flight after the first has reported.
C26_Witness ==
    /\ workers[1].state = "reported"
    /\ InFlight = {2}

\* C27, as stated: the thread-finished handler releases the thread that
\* finished; the reference of the page to the thread of a worker in flight
\* is not cleared and that thread is not scheduled for deletion; the
\* interactive thread never waits for a thread whose report it has yet to
\* process.
C27_Original ==
    /\ lastGen.op = "thread_finished" => lastGen.released = lastGen.gen
    /\ \A k \in InFlight : page.thread = k /\ ~threads[k].deleteLater
    /\ page.waiting # NoGen => workers[page.waiting].handled > 0

\* The steps towards the report of a generation: those of the worker threads
\* and those of the event loop of the interactive thread.
Progress ==
    \/ WorkerRun
    \/ DeliverReport
    \/ DeliverQuit
    \/ ThreadExit
    \/ DeliverThreadFinished
    \/ CloseDialog

\* C28, as stated: a started generation reports back once, as finished or as
\* error; the handler of the report stops the polling and enables the
\* button; and while the report of a started generation has not been
\* handled, a step towards it can be taken, so the page does not stay in the
\* generating state.
C28_Original ==
    /\ \A k \in Gens : workers[k].handled <= 1
    /\ \A k \in Gens : workers[k].handled = 1 => workers[k].report \in {"finished", "error"}
    /\ lastGen.op \in {"finished", "error"} => page.button /\ ~page.polling
    /\ Unreported # {} => ENABLED Progress

(***************************************************************************)
(* Properties of the acceptance of a completion (KeySpec)                  *)
(***************************************************************************)
\* The text t with the span [start, start + n) replaced by the completion.
Overwritten(t, start, n, completion) ==
    Slice(t, 0, start) \o completion \o Slice(t, start + n, Len(t))

\* C29, as stated: accepting a completion overwrites exactly the span
\* [replace_start, replace_start + length(prefix)) recorded when the popup
\* was last shown and changes no other character; afterwards no context is
\* stored and the popup is hidden; an acceptance made when no context is
\* stored, as a second one without a new show is, leaves the buffer as it was.
C29_Original ==
    [][lastKey'.op = "insert" =>
          IF completion_context.some
          THEN /\ completion_context.start + Len(completion_context.prefix) <= Len(text)
               /\ text' = Overwritten(text, completion_context.start,
                                      Len(completion_context.prefix), lastKey'.completion)
               /\ completion_context' = NoContext
               /\ ~popupVisible'
          ELSE /\ text' = text
               /\ completion_context' = NoContext
               /\ ~popupVisible']_vars

(***************************************************************************)
(* Properties of the replacement of the snapshot (TagSpec)                 *)
(***************************************************************************)
\* What the files found at a reload give, whatever the repository held.
Fresh(dirs) == sort_by_lower(Aggregate(Contributed(scanned(dirs)), {}, <<>>))

\* C30: reload replaces the tag list wholesale and atomically: after a
\* successful reload tags() is what the files present at that reload give
\* and nothing else, the list tags() gave before the reload holds what it
\* held, and a reload that raises leaves tags() equal to the snapshot before
\* it.
C30_Wholesale ==
    lastReload.called =>
        /\ lastReload.held = lastReload.before
        /\ lastReload.raised => repo_tags = lastReload.before
        /\ ~lastReload.raised => repo_tags = Fresh(lastReload.dirs)

\* A reload replaced a snapshot by one that shares no entry with it.
C30_Witness ==
    /\ lastReload.called /\ ~lastReload.raised
    /\ lastReload.before # <<>> /\ repo_tags # <<>>
    /\ Range(lastReload.before) \cap Range(repo_tags) = {}

\* A reload raised after its first file had given tags the snapshot lacks.
C30_WitnessRaised ==
    /\ lastReload.called /\ lastReload.raised
    /\ lastReload.before # <<>>
    /\ \E t \in Range(Contributed(scanned(lastReload.dirs))) :
           \A i \in 1..Len(repo_tags) : ~SameIdentity(repo_tags[i], t)

====
